---- MODULE Spec2Model ----
(***************************************************************************)
(* day18 (snailfish numbers): the ProblemTree of src/day18/src/main.rs, a  *)
(* petgraph StableDiGraph holding a binary tree with explicit Parent and   *)
(* Child(direction) edges, its reduce loop (explode / split), magnitude,   *)
(* and the part1 / part2 drivers.                                          *)
(*                                                                         *)
(* A NodeIndex is a position 1..Len(graph.nodes); None is 0.  The edges of *)
(* the graph are kept in insertion order, because petgraph walks a node's  *)
(* outgoing edges from the most recently added one to the oldest.          *)
(***************************************************************************)
EXTENDS Integers, Sequences, FiniteSets, TLC

\* ------------------------------------------------------------------------
\* Bounds of the model
\* ------------------------------------------------------------------------

\* total number of leaves over all the expressions of one input file
MaxLeaves == 6

\* number of leaves of one input file that hold HiVal instead of LoVal
MaxHigh == 1

\* ------------------------------------------------------------------------
\* enum InputPair, enum PairNode, enum Direction, enum EdgeType
\* ------------------------------------------------------------------------

Leaf(n) == [kind |-> "Leaf", n |-> n]

Pair(l, r) == [kind |-> "Pair", left |-> l, right |-> r]

PairRoot == [t |-> "PairRoot", v |-> 0]

LeafNode(n) == [t |-> "Leaf", v |-> n]

\* a slot of the StableGraph whose node was removed
Vacant == [t |-> "Vacant", v |-> 0]

\* Option::None of a NodeIndex
None == 0

get_other(direction) == IF direction = "Left" THEN "Right" ELSE "Left"

\* EdgeType::Child(direction); EdgeType::Parent is "Parent"
Child(direction) == direction

\* ------------------------------------------------------------------------
\* StableDiGraph<PairNode, EdgeType> as ProblemTree uses it
\* ------------------------------------------------------------------------

\* a `let` of the source: Only({f(x) : x \in {e}}) is f(e), with e computed
\* once, as the binding of the source computes it
Only(S) == CHOOSE x \in S : TRUE

\* StableDiGraph::new()
new_graph == [nodes |-> <<>>, edges |-> <<>>, free |-> <<>>]

\* graph.add_node(weight): the most recently vacated slot is used again,
\* otherwise the node vector grows.  Returns the graph and the new index.
add_node(graph, weight) ==
    IF graph.free # <<>>
    THEN [graph |-> [graph EXCEPT !.nodes[Head(graph.free)] = weight,
                                  !.free = Tail(graph.free)],
          idx |-> Head(graph.free)]
    ELSE [graph |-> [graph EXCEPT !.nodes = Append(graph.nodes, weight)],
          idx |-> Len(graph.nodes) + 1]

\* graph.add_edge(a, b, weight)
add_edge(graph, a, b, weight) ==
    [graph EXCEPT !.edges = Append(graph.edges, [src |-> a, dst |-> b, w |-> weight])]

\* graph.remove_node without the removal of the node's edges
remove_node_keeping_edges(graph, a) ==
    [nodes |-> [graph.nodes EXCEPT ![a] = Vacant],
     edges |-> graph.edges,
     free |-> <<a>> \o graph.free]

\* graph.remove_node(a): the node and every edge from or to it go away
remove_node(graph, a) ==
    [nodes |-> [graph.nodes EXCEPT ![a] = Vacant],
     edges |-> SelectSeq(graph.edges, LAMBDA e : e.src # a /\ e.dst # a),
     free |-> <<a>> \o graph.free]

\* graph.node_weight(a).unwrap()
node_weight(graph, a) == graph.nodes[a]

reversed(seq) == [i \in 1..Len(seq) |-> seq[Len(seq) + 1 - i]]

\* the outgoing edges of a, most recently added first
out_edges(graph, a) ==
    Only({reversed(outs) : outs \in {SelectSeq(graph.edges, LAMBDA e : e.src = a)}})

\* graph.neighbors(a)
neighbors(graph, a) ==
    Only({[i \in 1..Len(outs) |-> outs[i].dst] : outs \in {out_edges(graph, a)}})

\* the first of the edges outs[from..] that leads to b
RECURSIVE first_edge_to(_, _, _)
first_edge_to(outs, from, b) ==
    IF outs[from].dst = b THEN outs[from] ELSE first_edge_to(outs, from + 1, b)

\* graph.edge_weight(graph.find_edge(a, b).unwrap()).unwrap()
find_edge_weight(graph, a, b) ==
    Only({first_edge_to(outs, 1, b).w : outs \in {out_edges(graph, a)}})

\* Iterator::find over the neighbors ns[from..] of a, with the edge type as
\* the test
RECURSIVE find_from(_, _, _, _, _)
find_from(graph, a, ns, from, weight) ==
    IF from > Len(ns) THEN None
    ELSE IF find_edge_weight(graph, a, ns[from]) = weight THEN ns[from]
    ELSE find_from(graph, a, ns, from + 1, weight)

find_neighbor(graph, a, weight) ==
    Only({find_from(graph, a, ns, 1, weight) : ns \in {neighbors(graph, a)}})

\* ------------------------------------------------------------------------
\* ProblemTree: construction and navigation
\* ------------------------------------------------------------------------

get_parent(tree, node_idx) == find_neighbor(tree.graph, node_idx, "Parent")

get_child(tree, node_idx, direction) ==
    find_neighbor(tree.graph, node_idx, Child(direction))

\* the two add_edge calls that hang a new node under its parent
link_child(tree, added, direction, parent_idx) ==
    [tree EXCEPT !.graph =
        add_edge(add_edge(added.graph, parent_idx, added.idx, Child(direction)),
                 added.idx, parent_idx, "Parent")]

insert_leaf(tree, value, direction, parent_idx) ==
    Only({link_child(tree, added, direction, parent_idx) :
          added \in {add_node(tree.graph, LeafNode(value))}})

RECURSIVE insert_input_pair(_, _, _, _)

\* the Pair arm of insert_input_pair, once the PairRoot is added
insert_pair_root(tree, added, pair, direction, parent_idx) ==
    Only({insert_input_pair(with_left, pair.right, "Right", added.idx) :
          with_left \in {Only({insert_input_pair(linked, pair.left, "Left", added.idx) :
                               linked \in {link_child(tree, added, direction,
                                                      parent_idx)}})}})

insert_input_pair(tree, pair, direction, parent_idx) ==
    IF pair.kind = "Leaf"
    THEN insert_leaf(tree, pair.n, direction, parent_idx)
    ELSE Only({insert_pair_root(tree, added, pair, direction, parent_idx) :
               added \in {add_node(tree.graph, PairRoot)}})

\* build, once the root is added
build_below(added, left, right) ==
    Only({insert_input_pair(with_left, right, "Right", added.idx) :
          with_left \in {insert_input_pair(
                             [graph |-> added.graph, root_idx |-> added.idx],
                             left, "Left", added.idx)}})

build(left, right) ==
    Only({build_below(added, left, right) : added \in {add_node(new_graph, PairRoot)}})

\* insert_root_sibling_input_pair, once the new root is added
plant_root(tree, added, pair, direction) ==
    Only({insert_input_pair(planted, pair, direction, added.idx) :
          planted \in {[graph |-> add_edge(add_edge(added.graph, added.idx,
                                                    tree.root_idx,
                                                    Child(get_other(direction))),
                                           tree.root_idx, added.idx, "Parent"),
                        root_idx |-> added.idx]}})

\* a merge that hangs the new expression on the side of the old root
insert_root_sibling_on_other_side(tree, pair, direction) ==
    Only({plant_root(tree, added, pair, get_other(direction)) :
          added \in {add_node(tree.graph, PairRoot)}})

insert_root_sibling_input_pair(tree, pair, direction) ==
    Only({plant_root(tree, added, pair, direction) :
          added \in {add_node(tree.graph, PairRoot)}})

\* ------------------------------------------------------------------------
\* ProblemTree: the search for the node to rewrite
\* ------------------------------------------------------------------------

\* a search for pairs one level too deep
explode_criteria_too_deep(node, depth) == depth >= 5 /\ node.t = "PairRoot"

\* the closure of find_node_to_explode
explode_criteria(node, depth) == depth >= 4 /\ node.t = "PairRoot"

\* a search for leaves to split that takes a 9 as well
split_criteria_from_nine(node, depth) == node.t = "Leaf" /\ node.v >= 9

\* the closure of find_node_to_split
split_criteria(node, depth) == node.t = "Leaf" /\ node.v >= 10

criteria_holds(criteria, node, depth) ==
    IF criteria = "explode" THEN explode_criteria(node, depth)
    ELSE split_criteria(node, depth)

\* a chain that takes the node itself before it asks its children
first_candidate_self_first(left_candidate, right_candidate, below_matches, below_idx) ==
    IF below_matches THEN below_idx
    ELSE IF left_candidate # None THEN left_candidate
    ELSE IF right_candidate # None THEN right_candidate
    ELSE None

\* a chain that asks the right child first
first_candidate_right_first(left_candidate, right_candidate, below_matches, below_idx) ==
    IF right_candidate # None THEN right_candidate
    ELSE IF left_candidate # None THEN left_candidate
    ELSE IF below_matches THEN below_idx
    ELSE None

\* the if / else if chain that ends find_node_to_reduce_below_or_at
first_candidate(left_candidate, right_candidate, below_matches, below_idx) ==
    IF left_candidate # None THEN left_candidate
    ELSE IF right_candidate # None THEN right_candidate
    ELSE IF below_matches THEN below_idx
    ELSE None

RECURSIVE find_node_to_reduce_below_or_at(_, _, _, _)

\* child.and_then(find_from_child)
find_from_child(tree, child_idx, node_depth, criteria) ==
    IF child_idx = None THEN None
    ELSE find_node_to_reduce_below_or_at(tree, child_idx, node_depth + 1, criteria)

find_node_to_reduce_below_or_at(tree, below_idx, node_depth, criteria) ==
    Only({first_candidate(
              left_candidate, right_candidate,
              criteria_holds(criteria, node_weight(tree.graph, below_idx), node_depth),
              below_idx) :
          left_candidate \in
              {Only({find_from_child(tree, left_child, node_depth, criteria) :
                     left_child \in {get_child(tree, below_idx, "Left")}})},
          right_candidate \in
              {Only({find_from_child(tree, right_child, node_depth, criteria) :
                     right_child \in {get_child(tree, below_idx, "Right")}})}})

find_node_to_explode(tree) ==
    find_node_to_reduce_below_or_at(tree, tree.root_idx, 0, "explode")

find_node_to_split(tree) ==
    find_node_to_reduce_below_or_at(tree, tree.root_idx, 0, "split")

\* ------------------------------------------------------------------------
\* ProblemTree: explode
\* ------------------------------------------------------------------------

\* the result of a lookup that hit an unwrap() on None
Panicked == -1

\* the closure have_found_root_like_node, once both children are unwrapped
root_like(tree, direction, prev_cursor, cursor_left_child, cursor_right_child) ==
    IF direction = "Right" /\ cursor_right_child = prev_cursor THEN FALSE
    ELSE IF direction = "Left" /\ cursor_left_child = prev_cursor THEN FALSE
    ELSE /\ node_weight(tree.graph, cursor_left_child).t = "PairRoot"
         /\ node_weight(tree.graph, cursor_right_child).t = "PairRoot"

have_found_root_like_node(tree, direction, prev_cursor, cursor) ==
    Only({root_like(tree, direction, prev_cursor, cursor_left_child,
                    cursor_right_child) :
          cursor_left_child \in {get_child(tree, cursor, "Left")},
          cursor_right_child \in {get_child(tree, cursor, "Right")}})

\* the test of the body of the while loop: a leaf hangs on the wanted side
is_leaf_child(tree, cursor, directional_child) ==
    /\ directional_child # None
    /\ directional_child # cursor
    /\ node_weight(tree.graph, directional_child).t = "Leaf"

climbed(res, prev_cursor, cursor) == [res |-> res, prev |-> prev_cursor, cursor |-> cursor]

RECURSIVE climb(_, _, _, _)

\* a climb that unwraps the parent instead of giving up at the root
climb_on_unwrap(tree, direction, cursor, parent) ==
    IF parent = None THEN climbed("panic", cursor, cursor)
    ELSE climb(tree, direction, cursor, parent)

\* the end of the body of the while loop: `cursor = self.get_parent(cursor)?`
climb_on(tree, direction, cursor, parent) ==
    IF parent = None THEN climbed("none", cursor, cursor)
    ELSE climb(tree, direction, cursor, parent)

\* the body of the while loop, directional_child looked up
climb_body(tree, direction, prev_cursor, cursor, directional_child) ==
    IF is_leaf_child(tree, cursor, directional_child)
    THEN climbed("leaf", prev_cursor, directional_child)
    ELSE Only({climb_on(tree, direction, cursor, parent) :
               parent \in {get_parent(tree, cursor)}})

\* the while loop of get_leaf_in_relative_direction: climbs until a leaf
\* hangs on the wanted side ("leaf"), the parents run out ("none") or a
\* node with two PairRoot children is met from the other side ("flip")
climb(tree, direction, prev_cursor, cursor) ==
    IF get_child(tree, cursor, "Left") = None \/ get_child(tree, cursor, "Right") = None
    THEN climbed("panic", prev_cursor, cursor)
    ELSE IF have_found_root_like_node(tree, direction, prev_cursor, cursor)
    THEN climbed("flip", prev_cursor, cursor)
    ELSE Only({climb_body(tree, direction, prev_cursor, cursor, directional_child) :
               directional_child \in {get_child(tree, cursor, direction)}})

RECURSIVE descend(_, _, _)

descend_to(tree, direction, cursor, child_candidate) ==
    IF child_candidate # None THEN descend(tree, direction, child_candidate)
    ELSE cursor

\* a descent that keeps to the side the lookup started towards
descend_same_side(tree, direction, cursor) ==
    Only({descend_to(tree, direction, cursor, child_candidate) :
          child_candidate \in {get_child(tree, cursor, direction)}})

\* the final loop of get_leaf_in_relative_direction: as far as possible
\* towards the other side
descend(tree, direction, cursor) ==
    Only({descend_to(tree, direction, cursor, child_candidate) :
          child_candidate \in {get_child(tree, cursor, get_other(direction))}})

\* get_leaf_in_relative_direction after the while loop
flip_around(tree, direction, prev_cursor, flip_around_node) ==
    IF flip_around_node = None THEN None
    ELSE IF flip_around_node = prev_cursor THEN None
    ELSE descend(tree, direction, flip_around_node)

after_climb(tree, direction, up) ==
    CASE up.res = "panic" -> Panicked
      [] up.res = "leaf" -> up.cursor
      [] up.res = "none" -> None
      [] OTHER -> Only({flip_around(tree, direction, up.prev, flip_around_node) :
                        flip_around_node \in {get_child(tree, up.cursor, direction)}})

\* the first `self.get_parent(node_idx)?` and the while loop
first_climb(tree, node_idx, direction) ==
    Only({climb_on(tree, direction, node_idx, parent) :
          parent \in {get_parent(tree, node_idx)}})

get_leaf_in_relative_direction(tree, node_idx, direction) ==
    Only({after_climb(tree, direction, up) :
          up \in {first_climb(tree, node_idx, direction)}})

\* the panics and failed unwraps of explode_in_relative_direction
lookup_panics(tree, to_explode, child, target) ==
    \/ child = None
    \/ node_weight(tree.graph, child).t # "Leaf"
    \/ target = Panicked
    \/ /\ target # None
       /\ target # to_explode
       /\ node_weight(tree.graph, target).t # "Leaf"

explode_in_relative_direction_panics(tree, to_explode, direction) ==
    Only({lookup_panics(tree, to_explode, child, target) :
          child \in {get_child(tree, to_explode, direction)},
          target \in {get_leaf_in_relative_direction(tree, to_explode, direction)}})

\* `*n = explode_value`: the leaf takes the value instead of growing by it
assign_to_leaf(tree, to_explode, explode_value, relative_direction_node_idx) ==
    IF relative_direction_node_idx = None \/ relative_direction_node_idx = to_explode
    THEN tree
    ELSE [tree EXCEPT !.graph.nodes[relative_direction_node_idx].v = explode_value]

\* `*n += explode_value` on the leaf the lookup found, if it found one
add_to_leaf(tree, to_explode, explode_value, relative_direction_node_idx) ==
    IF relative_direction_node_idx = None \/ relative_direction_node_idx = to_explode
    THEN tree
    ELSE [tree EXCEPT !.graph.nodes[relative_direction_node_idx].v = @ + explode_value]

\* explode_in_relative_direction when it does not panic: the tree after it
explode_in_relative_direction(tree, to_explode, direction) ==
    Only({add_to_leaf(tree, to_explode, explode_value, relative_direction_node_idx) :
          explode_value \in
              {node_weight(tree.graph, get_child(tree, to_explode, direction)).v},
          relative_direction_node_idx \in
              {get_leaf_in_relative_direction(tree, to_explode, direction)}})

\* the loop of reduce that removes the Leaf neighbors ns[from..] of the
\* exploded node
RECURSIVE remove_leaf_neighbors(_, _, _)
remove_leaf_neighbors(graph, ns, from) ==
    IF from > Len(ns) THEN graph
    ELSE IF node_weight(graph, ns[from]).t = "Leaf"
    THEN Only({remove_leaf_neighbors(removed, ns, from + 1) :
               removed \in {remove_node(graph, ns[from])}})
    ELSE remove_leaf_neighbors(graph, ns, from + 1)

\* `*to_explode_weight = PairNode::Leaf(0)`
become_zero(graph, to_explode) == [graph EXCEPT !.nodes[to_explode] = LeafNode(0)]

\* the end of the explode branch of reduce, after the two directions
collapse(tree, to_explode) ==
    Only({[tree EXCEPT !.graph = become_zero(pruned, to_explode)] :
          pruned \in {Only({remove_leaf_neighbors(tree.graph, ns, 1) :
                            ns \in {neighbors(tree.graph, to_explode)}})}})

\* the `if let Some(to_explode)` branch of reduce: does it panic
explode_panics(tree, to_explode) ==
    \/ explode_in_relative_direction_panics(tree, to_explode, "Left")
    \/ Only({explode_in_relative_direction_panics(t1, to_explode, "Right") :
             t1 \in {explode_in_relative_direction(tree, to_explode, "Left")}})

\* the `if let Some(to_explode)` branch of reduce: the tree after it
explode(tree, to_explode) ==
    Only({collapse(t2, to_explode) :
          t2 \in {Only({explode_in_relative_direction(t1, to_explode, "Right") :
                        t1 \in {explode_in_relative_direction(tree, to_explode,
                                                              "Left")}})}})

\* ------------------------------------------------------------------------
\* ProblemTree: split
\* ------------------------------------------------------------------------

\* a split that rounds the left half up and the right half down
get_split_values_rounded_up_first(n) ==
    <<IF n % 2 = 0 THEN n \div 2 ELSE n \div 2 + 1, n \div 2>>

get_split_values(n) ==
    <<n \div 2, IF n % 2 = 0 THEN n \div 2 ELSE n \div 2 + 1>>

split_node_panics(tree, node_idx) == node_weight(tree.graph, node_idx).t # "Leaf"

\* split_node, once the values are known
split_into(tree, node_idx, values) ==
    Only({insert_leaf(with_left, values[2], "Right", node_idx) :
          with_left \in {insert_leaf([tree EXCEPT !.graph.nodes[node_idx] = PairRoot],
                                     values[1], "Left", node_idx)}})

split_node(tree, node_idx) ==
    Only({split_into(tree, node_idx, values) :
          values \in {get_split_values(node_weight(tree.graph, node_idx).v)}})

\* ------------------------------------------------------------------------
\* ProblemTree: magnitude
\* ------------------------------------------------------------------------

\* a match with the two multipliers exchanged
push_child_exchanged(to_visit, n, neighbor, edge_type) ==
    CASE edge_type = Child("Left") -> Append(to_visit, <<2 * n, neighbor>>)
      [] edge_type = Child("Right") -> Append(to_visit, <<3 * n, neighbor>>)
      [] OTHER -> to_visit

\* the match on edge_type in magnitude
push_child(to_visit, n, neighbor, edge_type) ==
    CASE edge_type = Child("Left") -> Append(to_visit, <<3 * n, neighbor>>)
      [] edge_type = Child("Right") -> Append(to_visit, <<2 * n, neighbor>>)
      [] OTHER -> to_visit

\* the `for neighbor in neighbors` loop of magnitude, over ns[from..]
RECURSIVE push_neighbors(_, _, _, _, _, _)
push_neighbors(tree, visiting_idx, n, ns, from, to_visit) ==
    IF from > Len(ns) THEN to_visit
    ELSE Only({push_neighbors(tree, visiting_idx, n, ns, from + 1, pushed) :
               pushed \in {push_child(to_visit, n, ns[from],
                               find_edge_weight(tree.graph, visiting_idx, ns[from]))}})

RECURSIVE magnitude_loop(_, _, _)

\* the body of the while loop of magnitude, (n, visiting_idx) just popped
visit(tree, rest, total, n, visiting_idx) ==
    IF node_weight(tree.graph, visiting_idx).t = "PairRoot"
    THEN Only({magnitude_loop(tree, to_visit, total) :
               to_visit \in {Only({push_neighbors(tree, visiting_idx, n, ns, 1, rest) :
                                   ns \in {neighbors(tree.graph, visiting_idx)}})}})
    ELSE magnitude_loop(tree, rest, total + n * node_weight(tree.graph, visiting_idx).v)

\* the `while let Some(..) = to_visit.pop()` loop of magnitude
magnitude_loop(tree, to_visit, total) ==
    IF to_visit = <<>> THEN total
    ELSE visit(tree, SubSeq(to_visit, 1, Len(to_visit) - 1), total,
               to_visit[Len(to_visit)][1], to_visit[Len(to_visit)][2])

\* a magnitude that starts at the first node of the graph, where build puts
\* the root, and not at root_idx
magnitude_from_first_node(tree) == magnitude_loop(tree, <<<<1, 1>>>>, 0)

magnitude(tree) == magnitude_loop(tree, <<<<1, tree.root_idx>>>>, 0)

\* ------------------------------------------------------------------------
\* impl Debug for ProblemTree: the nested-bracket text of a tree
\* ------------------------------------------------------------------------

\* a text is a sequence of characters, each a string of length one
DigitChars == <<"0", "1", "2", "3", "4", "5", "6", "7", "8", "9">>

\* the digits of n with the least significant one first
RECURSIVE digits_reversed(_)
digits_reversed(n) ==
    IF n < 10 THEN <<DigitChars[n + 1]>>
    ELSE <<DigitChars[(n % 10) + 1]>> \o digits_reversed(n \div 10)

\* write!(formatter, "{}", n) for a u32: its decimal digits, most
\* significant first, no sign and no leading zero
RECURSIVE display_u32(_)
display_u32(n) ==
    IF n < 10 THEN <<DigitChars[n + 1]>>
    ELSE display_u32(n \div 10) \o <<DigitChars[(n % 10) + 1]>>

\* what a formatter call returns: Ok with the text written so far, or
\* Err(fmt::Error), or the panic of an unwrap
written(text) == [res |-> "Ok", text |-> text]

fmt_error == [res |-> "Err", text |-> <<>>]

fmt_panic == [res |-> "panic", text |-> <<>>]

\* `?` after a write: go on with what was written, or hand the error up
and_then_write(first, second) ==
    IF first.res # "Ok" THEN first
    ELSE IF second.res # "Ok" THEN second
    ELSE written(first.text \o second.text)

RECURSIVE debug_tree(_, _)

\* the PairRoot arm of debug_tree, the two children looked up: only the left
\* candidate is tested for None, twice, before both are unwrapped
debug_pair(tree, left_node_idx_candidate, right_node_idx_candidate) ==
    IF left_node_idx_candidate = None \/ left_node_idx_candidate = None
    THEN fmt_error
    ELSE IF right_node_idx_candidate = None THEN fmt_panic
    ELSE Only({and_then_write(
                   and_then_write(and_then_write(written(<<"[">>), left_text),
                                  written(<<",">>)),
                   and_then_write(right_text, written(<<"]">>))) :
               left_text \in {debug_tree(tree, left_node_idx_candidate)},
               right_text \in {debug_tree(tree, right_node_idx_candidate)}})

debug_tree(tree, node_idx) ==
    IF node_idx = None \/ node_idx > Len(tree.graph.nodes) THEN fmt_error
    ELSE IF node_weight(tree.graph, node_idx) = Vacant THEN fmt_error
    ELSE IF node_weight(tree.graph, node_idx).t = "Leaf"
    THEN written(display_u32(node_weight(tree.graph, node_idx).v))
    ELSE Only({debug_pair(tree, left_node_idx_candidate, right_node_idx_candidate) :
               left_node_idx_candidate \in {get_child(tree, node_idx, "Left")},
               right_node_idx_candidate \in {get_child(tree, node_idx, "Right")}})

\* <ProblemTree as Debug>::fmt
fmt(tree) == debug_tree(tree, tree.root_idx)

\* ------------------------------------------------------------------------
\* parse_snailfish_problem: the nom parsers
\* ------------------------------------------------------------------------

\* IResult: Ok((remaining, value)) or Err
parsed(remaining, value) == [ok |-> TRUE, remaining |-> remaining, value |-> value]

parse_error == [ok |-> FALSE, remaining |-> <<>>, value |-> Leaf(0)]

is_digit(c) == \E d \in 1..10 : DigitChars[d] = c

digit_value(c) == (CHOOSE d \in 1..10 : DigitChars[d] = c) - 1

\* the number of digits chunk[from..] starts with
RECURSIVE count_digits(_, _)
count_digits(chunk, from) ==
    IF from > Len(chunk) THEN 0
    ELSE IF is_digit(chunk[from]) THEN 1 + count_digits(chunk, from + 1)
    ELSE 0

\* u32::MAX = 4294967295, as the digits str::parse compares against
U32MaxDigits == <<"4", "2", "9", "4", "9", "6", "7", "2", "9", "5">>

\* the first position from from on that holds no leading zero (the last
\* position at the latest)
RECURSIVE first_significant(_, _)
first_significant(digits, from) ==
    IF from < Len(digits) /\ digits[from] = "0"
    THEN first_significant(digits, from + 1)
    ELSE from

\* digits a and b of equal length: a spells a number not above b
RECURSIVE not_above(_, _, _)
not_above(a, b, from) ==
    IF from > Len(a) THEN TRUE
    ELSE IF digit_value(a[from]) < digit_value(b[from]) THEN TRUE
    ELSE IF digit_value(a[from]) > digit_value(b[from]) THEN FALSE
    ELSE not_above(a, b, from + 1)

\* the run of digits spells a number that a u32 holds
fits_u32(significant) ==
    \/ Len(significant) < Len(U32MaxDigits)
    \/ Len(significant) = Len(U32MaxDigits) /\ not_above(significant, U32MaxDigits, 1)

\* str::parse::<u32> of a run of digits, acc the value of those before from
RECURSIVE str_parse(_, _, _)
str_parse(digits, from, acc) ==
    IF from > Len(digits) THEN acc
    ELSE str_parse(digits, from + 1, 10 * acc + digit_value(digits[from]))

\* map_res(digit1, str::parse) once digit1 has taken k digits: an error when
\* there is none or when they overflow a u32
leaf_of_digits(chunk, k) ==
    IF k = 0 THEN parse_error
    ELSE IF ~fits_u32(SubSeq(chunk, first_significant(SubSeq(chunk, 1, k), 1), k))
    THEN parse_error
    ELSE parsed(SubSeq(chunk, k + 1, Len(chunk)),
                Leaf(str_parse(SubSeq(chunk, 1, k), 1, 0)))

parse_snailfish_problem_leaf(chunk) ==
    Only({leaf_of_digits(chunk, k) : k \in {count_digits(chunk, 1)}})

\* char(c)
char(c, chunk) ==
    IF chunk # <<>> /\ Head(chunk) = c THEN parsed(Tail(chunk), Leaf(0))
    ELSE parse_error

RECURSIVE parse_snailfish_problem_pair(_)

\* alt((parse_snailfish_problem_pair, parse_snailfish_problem_leaf)), the
\* first alternative tried
alt_after_pair(chunk, as_pair) ==
    IF as_pair.ok THEN as_pair ELSE parse_snailfish_problem_leaf(chunk)

alt(chunk) ==
    Only({alt_after_pair(chunk, as_pair) :
          as_pair \in {parse_snailfish_problem_pair(chunk)}})

\* delimited(.., char(']')) and the Pair that is made of the two halves
close_pair(pair1, pair2) ==
    IF ~pair2.ok THEN parse_error
    ELSE IF ~char("]", pair2.remaining).ok THEN parse_error
    ELSE parsed(Tail(pair2.remaining), Pair(pair1.value, pair2.value))

\* separated_pair(.., char(','), ..) after its first half
second_half(pair1) ==
    IF ~pair1.ok THEN parse_error
    ELSE IF ~char(",", pair1.remaining).ok THEN parse_error
    ELSE Only({close_pair(pair1, pair2) : pair2 \in {alt(Tail(pair1.remaining))}})

parse_snailfish_problem_pair(chunk) ==
    IF ~char("[", chunk).ok THEN parse_error
    ELSE Only({second_half(pair1) : pair1 \in {alt(Tail(chunk))}})

\* a parser that does not ask for the end of the input
unterminated(res) == res

\* terminated(parse_snailfish_problem_pair, eof)
terminated_by_eof(res) ==
    IF res.ok /\ res.remaining = <<>> THEN res ELSE parse_error

parse_snailfish_problem(input) ==
    Only({terminated_by_eof(res) : res \in {parse_snailfish_problem_pair(input)}})

\* ------------------------------------------------------------------------
\* ProblemTree::reduce as a function: the tree it leaves
\* ------------------------------------------------------------------------

RECURSIVE reduce(_)

\* one iteration of the while loop, the two candidates looked up
reduce_with(tree, explode_candidate, split_candidate) ==
    IF explode_candidate # None
    THEN Only({reduce(exploded) : exploded \in {explode(tree, explode_candidate)}})
    ELSE IF split_candidate # None
    THEN Only({reduce(splitted) : splitted \in {split_node(tree, split_candidate)}})
    ELSE tree

reduce(tree) ==
    Only({reduce_with(tree, explode_candidate, split_candidate) :
          explode_candidate \in {find_node_to_explode(tree)},
          split_candidate \in {find_node_to_split(tree)}})

\* ------------------------------------------------------------------------
\* The tree a graph holds, read as a nested value, and the reference
\* notions the properties are stated with
\* ------------------------------------------------------------------------

\* the nodes a -> b edges of type weight lead to, whatever their order
targets(tree, a, weight) ==
    {tree.graph.edges[i].dst : i \in {k \in 1..Len(tree.graph.edges) :
        tree.graph.edges[k].src = a /\ tree.graph.edges[k].w = weight}}

\* the value below node idx: Leaf(n) or Pair(left, right)
RECURSIVE ValueAt(_, _)
ValueAt(tree, idx) ==
    IF node_weight(tree.graph, idx).t = "Leaf" THEN Leaf(node_weight(tree.graph, idx).v)
    ELSE Pair(ValueAt(tree, CHOOSE c \in targets(tree, idx, "Left") : TRUE),
              ValueAt(tree, CHOOSE c \in targets(tree, idx, "Right") : TRUE))

ValueOf(tree) == ValueAt(tree, tree.root_idx)

\* the path from the root to node idx, a sequence of "Left" / "Right"
RECURSIVE PathTo(_, _)
PathTo(tree, idx) ==
    IF idx = tree.root_idx THEN <<>>
    ELSE LET p == CHOOSE q \in targets(tree, idx, "Parent") : TRUE
             d == IF idx \in targets(tree, p, "Left") THEN "Left" ELSE "Right"
         IN Append(PathTo(tree, p), d)

\* the leaf values of a value, left to right
RECURSIVE LeafSeq(_)
LeafSeq(v) ==
    IF v.kind = "Leaf" THEN <<v.n>> ELSE LeafSeq(v.left) \o LeafSeq(v.right)

\* the sub-value a path leads to
RECURSIVE SubValue(_, _)
SubValue(v, path) ==
    IF path = <<>> THEN v
    ELSE SubValue(IF Head(path) = "Left" THEN v.left ELSE v.right, Tail(path))

\* v with the sub-value at path replaced by w
RECURSIVE ReplaceAt(_, _, _)
ReplaceAt(v, path, w) ==
    IF path = <<>> THEN w
    ELSE IF Head(path) = "Left" THEN Pair(ReplaceAt(v.left, Tail(path), w), v.right)
    ELSE Pair(v.left, ReplaceAt(v.right, Tail(path), w))

\* the number of leaves of v that lie left of the sub-value at path
RECURSIVE LeavesBefore(_, _)
LeavesBefore(v, path) ==
    IF path = <<>> THEN 0
    ELSE IF Head(path) = "Left" THEN LeavesBefore(v.left, Tail(path))
    ELSE Len(LeafSeq(v.left)) + LeavesBefore(v.right, Tail(path))

\* v with its leaves, left to right, replaced by the values of seq
RECURSIVE WithLeaves(_, _)
WithLeaves(v, seq) ==
    IF v.kind = "Leaf" THEN Leaf(seq[1])
    ELSE LET k == Len(LeafSeq(v.left))
         IN Pair(WithLeaves(v.left, SubSeq(seq, 1, k)),
                 WithLeaves(v.right, SubSeq(seq, k + 1, Len(seq))))

\* the depth (root = 0) and node kind of every node of a value
RECURSIVE PairDepths(_, _)
PairDepths(v, depth) ==
    IF v.kind = "Leaf" THEN {}
    ELSE {depth} \cup PairDepths(v.left, depth + 1) \cup PairDepths(v.right, depth + 1)

\* mag(Leaf v) = v, mag(Pair(l, r)) = 3 * mag(l) + 2 * mag(r)
RECURSIVE Mag(_)
Mag(v) == IF v.kind = "Leaf" THEN v.n ELSE 3 * Mag(v.left) + 2 * Mag(v.right)

\* ------------------------------------------------------------------------
\* The input files: what parse_snailfish_problem hands to part1 and part2
\* ------------------------------------------------------------------------

\* the two leaf values of the generated inputs: one below 10, whose sums
\* reach 10, and one that splits as it stands
LoVal == 5

HiVal == 11

\* the expressions with exactly n leaves, h of them holding HiVal
RECURSIVE Exprs(_, _)
Exprs(n, h) ==
    IF n = 1
    THEN (IF h = 0 THEN {Leaf(LoVal)} ELSE IF h = 1 THEN {Leaf(HiVal)} ELSE {})
    ELSE UNION {UNION {{Pair(l, r) : l \in Exprs(k, h1), r \in Exprs(n - k, h - h1)} :
                       h1 \in 0..h} : k \in 1..(n - 1)}

\* the lists of pair expressions with at most n leaves, at most h of them HiVal
RECURSIVE InputLists(_, _)
InputLists(n, h) ==
    {<<>>} \cup
    UNION {UNION {{<<e>> \o rest : e \in Exprs(k, h1), rest \in InputLists(n - k, h - h1)} :
                  h1 \in 0..h} : k \in 2..n}

\* the inputs of the end-to-end scenarios of the specification
PairOf(a, b) == Pair(Leaf(a), Leaf(b))

ScenarioInputs ==
    {<<PairOf(1, 1), PairOf(2, 2), PairOf(3, 3), PairOf(4, 4)>>,
     <<PairOf(1, 1), PairOf(2, 2), PairOf(3, 3), PairOf(4, 4), PairOf(5, 5)>>,
     <<PairOf(1, 1), PairOf(2, 2), PairOf(3, 3), PairOf(4, 4), PairOf(5, 5), PairOf(6, 6)>>,
     <<Pair(Pair(Pair(Pair(PairOf(9, 8), Leaf(1)), Leaf(2)), Leaf(3)), Leaf(4))>>,
     <<Pair(Leaf(7), Pair(Leaf(6), Pair(Leaf(5), Pair(Leaf(4), PairOf(3, 2)))))>>,
     <<Pair(Pair(Pair(PairOf(4, 3), Leaf(4)), Leaf(4)),
            Pair(Leaf(7), Pair(PairOf(8, 4), Leaf(9)))),
       PairOf(1, 1)>>}

\* input files whose expressions nest pairs inside pairs at depth 4 and more
DeepInputs ==
    {<<Pair(Pair(Pair(Pair(Pair(Pair(Leaf(1), Leaf(2)), Leaf(3)), Leaf(4)), Leaf(5)),
                 Leaf(6)), Leaf(7))>>,
     <<Pair(Leaf(1), Pair(Leaf(2), Pair(Leaf(3), Pair(Leaf(4),
                 Pair(Pair(Leaf(5), Leaf(6)), Pair(Leaf(7), Leaf(8)))))))>>,
     <<PairOf(1, 1),
       Pair(Pair(Pair(Pair(Leaf(2), Pair(Leaf(3), Leaf(4))), Leaf(5)), Leaf(6)), Leaf(7))>>}

\* Itertools::combinations(2): each two positions in one order only
combinations(n) ==
    LET ordered == [k \in 1..(n * n) |-> <<((k - 1) \div n) + 1, ((k - 1) % n) + 1>>]
    IN SelectSeq(ordered, LAMBDA p : p[1] < p[2])

\* Itertools::permutations(2) over n positions, in the order it yields them
permutations(n) ==
    LET ordered == [k \in 1..(n * n) |-> <<((k - 1) \div n) + 1, ((k - 1) % n) + 1>>]
    IN SelectSeq(ordered, LAMBDA p : p[1] # p[2])

\* the fold of Iterator::max over seq[from..], best the largest so far
RECURSIVE max_from(_, _, _)
max_from(seq, from, best) ==
    IF from > Len(seq) THEN best
    ELSE max_from(seq, from + 1, IF seq[from] >= best THEN seq[from] ELSE best)

\* Iterator::max of a non-empty sequence
max(seq) == max_from(seq, 2, seq[1])

\* ------------------------------------------------------------------------
\* main: part1, then part2, on the parsed input_pairs
\* ------------------------------------------------------------------------

VARIABLES
    input_pairs,        \* all_pairs of main
    pc,                 \* where main is
    caller,             \* which of part1 / part2 called reduce
    tree,               \* problem_tree of part1, tree1 of part2
    performed_action,   \* of reduce: "None", "Some(true)", "Some(false)"
    explode_candidate,  \* of reduce
    split_candidate,    \* of reduce
    next_input,         \* position of the for loop of part1
    perm,               \* position in permutations(2) of part2
    magnitudes,         \* what the map of part2 has yielded so far
    part1_result,       \* what part1 returned, -1 before
    part2_result,       \* what part2 returned, -1 before
    before,             \* the tree before the last explode or split
    last_rewrite,       \* "explode" or "split" right after one, else "none"
    rewritten           \* the node the last explode or split was applied to

\* main before it calls part1: the lines of the input file and the position
\* of the filter_map over them
VARIABLES
    lines,              \* the lines of the input file, each a text
    next_line           \* the line filter_map is handed next

\* what part1, part2 and reduce work on, apart from input_pairs and pc
parts_vars == <<caller, tree, performed_action, explode_candidate, split_candidate,
                next_input, perm, magnitudes, part1_result, part2_result, before,
                last_rewrite, rewritten>>

day18_vars == <<input_pairs, pc, parts_vars>>

main_vars == <<lines, next_line>>

\* day4: the game a BingoPlayer plays, and what its next() has returned
VARIABLES
    bingo_input,        \* the Input the game was made from
    game,               \* BingoGame: calls and boards
    yielded,            \* the Some(..) items next() has returned, in order
    yielded_from,       \* for each item, the positions of its boards in game.boards
    drawn,              \* for each item, how many calls were popped when it was returned
    day4_pc             \* "play" while next() may be called, "done" after None

day4_vars == <<bingo_input, game, yielded, yielded_from, drawn, day4_pc>>

\* day11: part1 and the simulate_step it calls
VARIABLES
    current_board,      \* of part1: the board handed to simulate_step
    total_flashes,      \* of part1
    steps_taken,        \* the turns of the for loop of part1 that are over
    octo_next,          \* next of simulate_step
    num_flashes,        \* of simulate_step
    active_flashers,    \* of simulate_step
    flashed,            \* of simulate_step
    to_flash,           \* of simulate_step
    unvisited,          \* what the for loop over &active_flashers has yet to visit
    flash_count,        \* how often each position was visited by that loop in this step
    day11_pc            \* where part1 / simulate_step is

day11_vars == <<current_board, total_flashes, steps_taken, octo_next, num_flashes,
                active_flashers, flashed, to_flash, unvisited, flash_count, day11_pc>>

\* day15: part1
VARIABLES
    cave,               \* input of part1: the rows of risks
    risks,              \* of part1
    node_parents,       \* of part1
    visit_queue,        \* of part1: the SearchPositions in the heap
    visiting_node,      \* the SearchPosition popped last, None before the first pop
    part1_cost,         \* what part1 returned, -1 before
    day15_pc            \* where part1 is

day15_vars == <<cave, risks, node_parents, visit_queue, visiting_node, part1_cost,
                day15_pc>>

\* day12: Puzzle::find_num_paths
VARIABLES
    connections,        \* adjacencies of main: the (Cave, Cave) of each line
    part,               \* Puzzle.part
    to_visit,           \* of find_num_paths
    paths,              \* of find_num_paths
    num_paths,          \* what find_num_paths returned, -1 before
    day12_pc            \* where find_num_paths is

day12_vars == <<connections, part, to_visit, paths, num_paths, day12_pc>>

\* day5: build_intersection_count_map
VARIABLES
    coordinate_pairs,   \* of build_intersection_count_map
    strategy,           \* of build_intersection_count_map
    counts,             \* of build_intersection_count_map
    next_pair,          \* the pair the for loop is handed next
    day5_pc             \* where build_intersection_count_map is

day5_vars == <<coordinate_pairs, strategy, counts, next_pair, day5_pc>>

\* day21: part1, the game with the deterministic die
VARIABLES
    die,                \* of part1: the DeterministicDie
    num_rolls,          \* of part1
    current_player,     \* of part1
    game_state,         \* of part1
    roll_value,         \* the sum of the rolls a turn has made so far
    rolls_taken,        \* how many of the three rolls a turn has made
    day21_result,       \* what part1 returned
    day21_pc            \* where part1 is

day21_vars == <<die, num_rolls, current_player, game_state, roll_value, rolls_taken,
                day21_result, day21_pc>>

\* the programs of the other days
other_days ==
    <<day4_vars, day11_vars, day15_vars, day12_vars, day5_vars, day21_vars>>

\* what part1, part2 and reduce leave alone
outside_parts == <<main_vars, other_days>>

vars == <<day18_vars, outside_parts>>

\* no file is being read
main_idle == lines = <<>> /\ next_line = 1

\* no game of day4 is being played
day4_idle ==
    /\ bingo_input = [calls |-> <<>>, boards |-> <<>>]
    /\ game = [calls |-> <<>>, boards |-> <<>>]
    /\ yielded = <<>>
    /\ yielded_from = <<>>
    /\ drawn = <<>>
    /\ day4_pc = "idle"

\* no board of day11 is being simulated
day11_idle ==
    /\ current_board = <<>>
    /\ total_flashes = 0
    /\ steps_taken = 0
    /\ octo_next = <<>>
    /\ num_flashes = 0
    /\ active_flashers = {}
    /\ flashed = {}
    /\ to_flash = {}
    /\ unvisited = {}
    /\ flash_count = <<>>
    /\ day11_pc = "idle"

\* no search of day15 is running
day15_idle ==
    /\ cave = <<>>
    /\ risks = <<>>
    /\ node_parents = <<>>
    /\ visit_queue = {}
    /\ visiting_node = None
    /\ part1_cost = -1
    /\ day15_pc = "idle"

\* no paths of day12 are being counted
day12_idle ==
    /\ connections = <<>>
    /\ part = "Part1"
    /\ to_visit = <<>>
    /\ paths = <<>>
    /\ num_paths = -1
    /\ day12_pc = "idle"

\* no vents of day5 are being counted
day5_idle ==
    /\ coordinate_pairs = <<>>
    /\ strategy = "OrthogonalOnly"
    /\ counts = <<>>
    /\ next_pair = 1
    /\ day5_pc = "idle"

\* no game of day21 is being played
day21_idle ==
    /\ die = [next_value |-> 0]
    /\ num_rolls = 0
    /\ current_player = "Player1"
    /\ game_state = [player1_state |-> [score |-> 0, position |-> 0],
                     player2_state |-> [score |-> 0, position |-> 0]]
    /\ roll_value = 0
    /\ rolls_taken = 0
    /\ day21_result = -1
    /\ day21_pc = "idle"

\* the programs of the other days are not running
other_days_idle ==
    day4_idle /\ day11_idle /\ day15_idle /\ day12_idle /\ day5_idle /\ day21_idle

empty_tree == [graph |-> new_graph, root_idx |-> None]

Init ==
    /\ input_pairs \in InputLists(MaxLeaves, MaxHigh) \cup ScenarioInputs \cup DeepInputs
    /\ pc = "part1"
    /\ caller = "part1"
    /\ tree = empty_tree
    /\ performed_action = "None"
    /\ explode_candidate = None
    /\ split_candidate = None
    /\ next_input = 2
    /\ perm = 1
    /\ magnitudes = <<>>
    /\ part1_result = -1
    /\ part2_result = -1
    /\ before = empty_tree
    /\ last_rewrite = "none"
    /\ rewritten = None
    /\ main_idle
    /\ other_days_idle

no_rewrite == /\ last_rewrite' = "none"
              /\ UNCHANGED <<before, rewritten>>

\* part1: ProblemTree::build of the first expression (input_pairs[0] of an
\* empty file is out of bounds), then the first reduce
Part1Build ==
    /\ pc = "part1"
    /\ IF input_pairs = <<>>
       THEN /\ pc' = "panic: index out of bounds"
            /\ UNCHANGED <<tree, performed_action>>
       ELSE /\ tree' = build(input_pairs[1].left, input_pairs[1].right)
            /\ pc' = "reduce"
            /\ performed_action' = "None"
    /\ caller' = "part1"
    /\ no_rewrite
    /\ UNCHANGED <<input_pairs, explode_candidate, split_candidate, next_input,
                   perm, magnitudes, part1_result, part2_result>>
    /\ UNCHANGED outside_parts

\* a head of the loop that leaves out `performed_action = Some(false)`
ReduceFindWithoutReset ==
    /\ pc = "reduce"
    /\ performed_action \in {"None", "Some(true)"}
    /\ explode_candidate' = find_node_to_explode(tree)
    /\ split_candidate' = find_node_to_split(tree)
    /\ pc' = "reduce_act"
    /\ no_rewrite
    /\ UNCHANGED <<input_pairs, caller, tree, performed_action, next_input, perm,
                   magnitudes, part1_result, part2_result>>
    /\ UNCHANGED outside_parts

\* reduce: the head of one iteration of the while loop, up to the two searches
ReduceFind ==
    /\ pc = "reduce"
    /\ performed_action \in {"None", "Some(true)"}
    /\ performed_action' = "Some(false)"
    /\ explode_candidate' = find_node_to_explode(tree)
    /\ split_candidate' = find_node_to_split(tree)
    /\ pc' = "reduce_act"
    /\ no_rewrite
    /\ UNCHANGED <<input_pairs, caller, tree, next_input, perm, magnitudes,
                   part1_result, part2_result>>
    /\ UNCHANGED outside_parts

\* reduce: the iteration explodes, and continues
ReduceExplode ==
    /\ pc = "reduce_act"
    /\ explode_candidate # None
    /\ performed_action' = "Some(true)"
    /\ IF explode_panics(tree, explode_candidate)
       THEN /\ pc' = "panic: explode"
            /\ UNCHANGED <<tree, before, last_rewrite, rewritten>>
       ELSE /\ tree' = explode(tree, explode_candidate)
            /\ before' = tree
            /\ last_rewrite' = "explode"
            /\ rewritten' = explode_candidate
            /\ pc' = "reduce"
    /\ UNCHANGED <<input_pairs, caller, explode_candidate, split_candidate,
                   next_input, perm, magnitudes, part1_result, part2_result>>
    /\ UNCHANGED outside_parts

\* a split that does not wait for the explodes to run out
ReduceSplitAnyway ==
    /\ pc = "reduce_act"
    /\ split_candidate # None
    /\ performed_action' = "Some(true)"
    /\ IF split_node_panics(tree, split_candidate)
       THEN /\ pc' = "panic: cannot explode non-leaf"
            /\ UNCHANGED <<tree, before, last_rewrite, rewritten>>
       ELSE /\ tree' = split_node(tree, split_candidate)
            /\ before' = tree
            /\ last_rewrite' = "split"
            /\ rewritten' = split_candidate
            /\ pc' = "reduce"
    /\ UNCHANGED <<input_pairs, caller, explode_candidate, split_candidate,
                   next_input, perm, magnitudes, part1_result, part2_result>>
    /\ UNCHANGED outside_parts

\* reduce: the iteration did not explode, and splits
ReduceSplit ==
    /\ pc = "reduce_act"
    /\ performed_action # "Some(true)"
    /\ explode_candidate = None
    /\ split_candidate # None
    /\ performed_action' = "Some(true)"
    /\ IF split_node_panics(tree, split_candidate)
       THEN /\ pc' = "panic: cannot explode non-leaf"
            /\ UNCHANGED <<tree, before, last_rewrite, rewritten>>
       ELSE /\ tree' = split_node(tree, split_candidate)
            /\ before' = tree
            /\ last_rewrite' = "split"
            /\ rewritten' = split_candidate
            /\ pc' = "reduce"
    /\ UNCHANGED <<input_pairs, caller, explode_candidate, split_candidate,
                   next_input, perm, magnitudes, part1_result, part2_result>>
    /\ UNCHANGED outside_parts

\* reduce: the iteration neither explodes nor splits: there is no candidate,
\* or the `continue` is taken
ReduceIdle ==
    /\ pc = "reduce_act"
    /\ explode_candidate = None
    /\ split_candidate = None \/ performed_action = "Some(true)"
    /\ pc' = "reduce"
    /\ no_rewrite
    /\ UNCHANGED <<input_pairs, caller, tree, performed_action, explode_candidate,
                   split_candidate, next_input, perm, magnitudes, part1_result,
                   part2_result>>
    /\ UNCHANGED outside_parts

\* reduce: the while condition fails and reduce returns to its caller
ReduceReturn ==
    /\ pc = "reduce"
    /\ performed_action = "Some(false)"
    /\ pc' = IF caller = "part1" THEN "part1_loop" ELSE "part2_magnitude"
    /\ no_rewrite
    /\ UNCHANGED <<input_pairs, caller, tree, performed_action, explode_candidate,
                   split_candidate, next_input, perm, magnitudes, part1_result,
                   part2_result>>
    /\ UNCHANGED outside_parts

\* part1: one turn of `for input_pair in &input_pairs[1..]`, up to its reduce
Part1Merge ==
    /\ pc = "part1_loop"
    /\ next_input <= Len(input_pairs)
    /\ tree' = insert_root_sibling_input_pair(tree, input_pairs[next_input], "Right")
    /\ next_input' = next_input + 1
    /\ performed_action' = "None"
    /\ pc' = "reduce"
    /\ no_rewrite
    /\ UNCHANGED <<input_pairs, caller, explode_candidate, split_candidate, perm,
                   magnitudes, part1_result, part2_result>>
    /\ UNCHANGED outside_parts

\* the leaves of a tree all emptied
drained(t) ==
    [t EXCEPT !.graph.nodes =
        [i \in 1..Len(t.graph.nodes) |->
            IF t.graph.nodes[i].t = "Leaf" THEN LeafNode(0)
            ELSE t.graph.nodes[i]]]

\* a magnitude() that uses its &mut self to empty the leaves it has counted
Part1MagnitudeDraining ==
    /\ pc = "part1_loop"
    /\ next_input > Len(input_pairs)
    /\ part1_result' = magnitude(tree)
    /\ tree' = drained(tree)
    /\ pc' = "part2"
    /\ no_rewrite
    /\ UNCHANGED <<input_pairs, caller, performed_action, explode_candidate,
                   split_candidate, next_input, perm, magnitudes, part2_result>>
    /\ UNCHANGED outside_parts

\* part1: problem_tree.magnitude(), and main goes on to part2
Part1Magnitude ==
    /\ pc = "part1_loop"
    /\ next_input > Len(input_pairs)
    /\ part1_result' = magnitude(tree)
    /\ pc' = "part2"
    /\ no_rewrite
    /\ UNCHANGED <<input_pairs, caller, tree, performed_action, explode_candidate,
                   split_candidate, next_input, perm, magnitudes, part2_result>>
    /\ UNCHANGED outside_parts

\* part2: the closure of map, ProblemTree::build of pairs[0]
Part2Build ==
    /\ pc = "part2"
    /\ perm <= Len(permutations(Len(input_pairs)))
    /\ LET pair1 == input_pairs[permutations(Len(input_pairs))[perm][1]]
       IN tree' = build(pair1.left, pair1.right)
    /\ pc' = "part2_merge"
    /\ caller' = "part2"
    /\ no_rewrite
    /\ UNCHANGED <<input_pairs, performed_action, explode_candidate, split_candidate,
                   next_input, perm, magnitudes, part1_result, part2_result>>
    /\ UNCHANGED outside_parts

\* part2: the closure of map, pairs[1] becomes the right sibling; then reduce
Part2Merge ==
    /\ pc = "part2_merge"
    /\ LET pair2 == input_pairs[permutations(Len(input_pairs))[perm][2]]
       IN tree' = insert_root_sibling_input_pair(tree, pair2, "Right")
    /\ performed_action' = "None"
    /\ pc' = "reduce"
    /\ no_rewrite
    /\ UNCHANGED <<input_pairs, caller, explode_candidate, split_candidate,
                   next_input, perm, magnitudes, part1_result, part2_result>>
    /\ UNCHANGED outside_parts

\* part2: the closure of map yields tree1.magnitude()
Part2Magnitude ==
    /\ pc = "part2_magnitude"
    /\ magnitudes' = Append(magnitudes, magnitude(tree))
    /\ perm' = perm + 1
    /\ pc' = "part2"
    /\ no_rewrite
    /\ UNCHANGED <<input_pairs, caller, tree, performed_action, explode_candidate,
                   split_candidate, next_input, part1_result, part2_result>>
    /\ UNCHANGED outside_parts

\* part2: max() of what map yielded; expect() panics when there was nothing
Part2Max ==
    /\ pc = "part2"
    /\ perm > Len(permutations(Len(input_pairs)))
    /\ IF magnitudes = <<>>
       THEN /\ pc' = "panic: should be at least one input pair"
            /\ UNCHANGED part2_result
       ELSE /\ part2_result' = max(magnitudes)
            /\ pc' = "done"
    /\ no_rewrite
    /\ UNCHANGED <<input_pairs, caller, tree, performed_action, explode_candidate,
                   split_candidate, next_input, perm, magnitudes, part1_result>>
    /\ UNCHANGED outside_parts

Next ==
    \/ Part1Build
    \/ ReduceFind
    \/ ReduceExplode
    \/ ReduceSplit
    \/ ReduceIdle
    \/ ReduceReturn
    \/ Part1Merge
    \/ Part1Magnitude
    \/ Part2Build
    \/ Part2Merge
    \/ Part2Magnitude
    \/ Part2Max

Spec == Init /\ [][Next]_vars

\* main runs to its end: every step that can be taken is taken
FairSpec == Spec /\ WF_vars(Next)

\* ------------------------------------------------------------------------
\* Properties
\* ------------------------------------------------------------------------

\* reduce has just returned to part1 or to part2
ReduceReturned == pc \in {"part1_loop", "part2_magnitude"}

\* some explode or split has happened since main started
HasRewritten == before # empty_tree

\* the leaves of the tree before the last rewrite, and where the rewritten
\* node stood in it
BeforeValue == ValueOf(before)

BeforePath == PathTo(before, rewritten)

BeforeLeaves == LeafSeq(BeforeValue)

\* the position, among the leaves of the tree before an explode, of the
\* left leaf of the exploded pair
BeforeAt == LeavesBefore(BeforeValue, BeforePath) + 1

\* C1: whenever reduce returns, no PairRoot lies at depth >= 4 (root at
\* depth 0) and no Leaf holds a value >= 10
C1_ReducedForm ==
    ReduceReturned =>
        /\ \A d \in PairDepths(ValueOf(tree), 0) : d < 4
        /\ \A i \in 1..Len(LeafSeq(ValueOf(tree))) : LeafSeq(ValueOf(tree))[i] < 10

\* reduce returns after it has exploded or split
C1_Witness == ReduceReturned /\ HasRewritten /\ caller = "part1"

C3_SplitOnlyWithoutExplode ==
    last_rewrite = "split" => \A d \in PairDepths(BeforeValue, 0) : d < 4

\* a split has just made a PairRoot at depth 4: the next rewrite is its explode
C3_Witness == last_rewrite = "split" /\ 4 \in PairDepths(ValueOf(tree), 0)

\* the tree an explode of the pair at path must leave, by the in-order
\* sequence of leaves: the left value goes to the leaf before the pair, the
\* right value to the leaf after it, the pair becomes Leaf(0)
ExplodedLeaves(seq, k) ==
    [i \in 1..Len(seq) |-> IF i = k - 1 THEN seq[i] + seq[k]
                           ELSE IF i = k + 2 THEN seq[i] + seq[k + 1]
                           ELSE seq[i]]

ExplodedValue(v, path) ==
    ReplaceAt(WithLeaves(v, ExplodedLeaves(LeafSeq(v), LeavesBefore(v, path) + 1)),
              path, Leaf(0))

\* C4: an explode adds the left value of the pair to the leaf just before the
\* pair in the left-to-right order of all leaves, the right value to the leaf
\* just after it, turns the pair into Leaf(0), and changes nothing else
C4_ExplodeEffect ==
    last_rewrite = "explode" =>
        /\ SubValue(BeforeValue, BeforePath).kind = "Pair"
        /\ SubValue(BeforeValue, BeforePath).left.kind = "Leaf"
        /\ SubValue(BeforeValue, BeforePath).right.kind = "Leaf"
        /\ ValueOf(tree) = ExplodedValue(BeforeValue, BeforePath)

\* an explode with distinct values whose left neighbour hangs directly on an
\* ancestor and whose right neighbour was found by the final descent
C4_Witness ==
    /\ last_rewrite = "explode"
    /\ BeforeLeaves[BeforeAt] # BeforeLeaves[BeforeAt + 1]
    /\ climb_on(before, "Left", rewritten, get_parent(before, rewritten)).res = "leaf"
    /\ climb_on(before, "Right", rewritten, get_parent(before, rewritten)).res = "flip"

\* the two trees the edge scenarios explode, and the trees they must become
LeftEdgeScenario ==
    Pair(Pair(Pair(Pair(Pair(Leaf(9), Leaf(8)), Leaf(1)), Leaf(2)), Leaf(3)), Leaf(4))

LeftEdgeExploded == Pair(Pair(Pair(Pair(Leaf(0), Leaf(9)), Leaf(2)), Leaf(3)), Leaf(4))

RightEdgeScenario ==
    Pair(Leaf(7), Pair(Leaf(6), Pair(Leaf(5), Pair(Leaf(4), Pair(Leaf(3), Leaf(2))))))

RightEdgeExploded == Pair(Leaf(7), Pair(Leaf(6), Pair(Leaf(5), Pair(Leaf(7), Leaf(0)))))

\* the leaves an explode leaves, the pair at leaves k and k + 1 being the
\* first leaves of the tree: nothing is left of it, its left value is dropped
AfterLeftEdge(seq) ==
    IF Len(seq) = 2 THEN <<0>>
    ELSE <<0, seq[3] + seq[2]>> \o SubSeq(seq, 4, Len(seq))

\* the same, the pair being the last leaves of the tree
AfterRightEdge(seq) ==
    IF Len(seq) = 2 THEN <<0>>
    ELSE SubSeq(seq, 1, Len(seq) - 3) \o <<seq[Len(seq) - 2] + seq[Len(seq) - 1], 0>>

\* C5: an explode of a pair with no leaf on its left, or none on its right,
\* does not panic, drops the value of that side and changes no leaf there;
\* [[[[[9,8],1],2],3],4] becomes [[[[0,9],2],3],4] and [7,[6,[5,[4,[3,2]]]]]
\* becomes [7,[6,[5,[7,0]]]]
C5_EdgeExplode ==
    /\ pc # "panic: explode"
    /\ last_rewrite = "explode" =>
        /\ BeforeAt = 1 => LeafSeq(ValueOf(tree)) = AfterLeftEdge(BeforeLeaves)
        /\ BeforeAt + 1 = Len(BeforeLeaves) =>
               LeafSeq(ValueOf(tree)) = AfterRightEdge(BeforeLeaves)
        /\ BeforeValue = LeftEdgeScenario => ValueOf(tree) = LeftEdgeExploded
        /\ BeforeValue = RightEdgeScenario => ValueOf(tree) = RightEdgeExploded

\* the right edge scenario has just exploded
C5_Witness ==
    /\ last_rewrite = "explode"
    /\ BeforeValue = RightEdgeScenario
    /\ BeforeAt + 1 = Len(BeforeLeaves)

\* the left edge scenario has just exploded
C5_WitnessLeft ==
    /\ last_rewrite = "explode"
    /\ BeforeValue = LeftEdgeScenario
    /\ BeforeAt = 1

\* the positions, left to right, of the leaves of v that hold 10 or more
SplittableAt(v) == {i \in 1..Len(LeafSeq(v)) : LeafSeq(v)[i] >= 10}

Least(S) == CHOOSE i \in S : \A j \in S : i <= j

\* the position of node idx among the leaves of the tree
LeafPosition(t, idx) == LeavesBefore(ValueOf(t), PathTo(t, idx)) + 1

\* C6: with no explode candidate, find_node_to_split finds the leftmost, in
\* the left-to-right order of all leaves, of the leaves that hold 10 or more
\* (and none if there is none), and that leaf is the one a split rewrites
C6_SplitLeftmost ==
    /\ (pc = "reduce_act" /\ explode_candidate = None) =>
          IF SplittableAt(ValueOf(tree)) = {} THEN split_candidate = None
          ELSE /\ split_candidate # None
               /\ node_weight(tree.graph, split_candidate).t = "Leaf"
               /\ LeafPosition(tree, split_candidate) = Least(SplittableAt(ValueOf(tree)))
    /\ last_rewrite = "split" =>
          LeafPosition(before, rewritten) = Least(SplittableAt(BeforeValue))

\* a split candidate was looked for among several leaves that hold 10 or
\* more, the leftmost of them not being the first leaf
C6_Witness ==
    /\ pc = "reduce_act"
    /\ explode_candidate = None
    /\ split_candidate # None
    /\ Cardinality(SplittableAt(ValueOf(tree))) >= 2
    /\ Least(SplittableAt(ValueOf(tree))) > 1

\* the value the last split was applied to
SplitValue == SubValue(BeforeValue, BeforePath)

\* C7: a split turns Leaf(n), n >= 10, into the pair of Leaf(floor(n / 2)) and
\* Leaf(n - floor(n / 2)) at the same place, the two adding up to n and the
\* left being the right or one less, and changes nothing else
C7_SplitValues ==
    last_rewrite = "split" =>
        /\ SplitValue.kind = "Leaf"
        /\ SplitValue.n >= 10
        /\ ValueOf(tree) =
               ReplaceAt(BeforeValue, BeforePath,
                         Pair(Leaf(SplitValue.n \div 2),
                              Leaf(SplitValue.n - (SplitValue.n \div 2))))
        /\ SubValue(ValueOf(tree), BeforePath).left.n
               + SubValue(ValueOf(tree), BeforePath).right.n = SplitValue.n
        /\ SubValue(ValueOf(tree), BeforePath).right.n
               - SubValue(ValueOf(tree), BeforePath).left.n \in {0, 1}

\* an odd value has just been split, somewhere below the root
C7_Witness ==
    /\ last_rewrite = "split"
    /\ SplitValue.n % 2 = 1
    /\ Len(BeforePath) >= 2

\* an even value has just been split
C7_WitnessEven == last_rewrite = "split" /\ SplitValue.n % 2 = 0

\* C8: the magnitude the worklist of multipliers computes is the recursive
\* mag(Leaf v) = v, mag(Pair(l, r)) = 3 * mag(l) + 2 * mag(r) of the root,
\* for every tree main holds and for everything part1 and part2 return
C8_MagnitudeRecursive ==
    /\ tree.root_idx # None => magnitude(tree) = Mag(ValueOf(tree))
    /\ pc = "part2" /\ perm = 1 => part1_result = Mag(ValueOf(tree))
    /\ pc = "part2" /\ perm > 1 => magnitudes[Len(magnitudes)] = Mag(ValueOf(tree))

\* part1 has returned the magnitude of a tree with pairs on both sides of
\* the root, which the two multipliers tell apart
C8_Witness ==
    /\ pc = "part2"
    /\ perm = 1
    /\ part1_result > 0
    /\ ValueOf(tree).left.kind = "Pair"
    /\ ValueOf(tree).right.kind = "Pair"
    /\ Mag(ValueOf(tree).left) # Mag(ValueOf(tree).right)

\* the value reduce leaves of the pair of two values, built as one fresh tree
ReducedPair(l, r) == ValueOf(reduce(build(l, r)))

\* T_k for k = from - 1 being acc, the value T_n the whole list folds to
RECURSIVE FoldFrom(_, _, _)
FoldFrom(xs, from, acc) ==
    IF from > Len(xs) THEN acc
    ELSE Only({FoldFrom(xs, from + 1, merged) :
               merged \in {ReducedPair(acc, xs[from])}})

\* T_1 = reduce(x1), T_k = reduce([T_(k-1), x_k])
Folded(xs) ==
    Only({FoldFrom(xs, 2, first) : first \in {ReducedPair(xs[1].left, xs[1].right)}})

\* part1 has just returned
Part1Returned == pc = "part2" /\ perm = 1 /\ magnitudes = <<>>

FourPairs == <<PairOf(1, 1), PairOf(2, 2), PairOf(3, 3), PairOf(4, 4)>>

\* C9: part1 of a non-empty list x1..xn returns the magnitude of T_n, where
\* T_1 = reduce(x1) and T_k = reduce([T_(k-1), x_k]); [1,1],[2,2],[3,3],[4,4]
\* gives 445, with [5,5] added 791, with [6,6] added 1137
C9_Part1Fold ==
    Part1Returned =>
        /\ part1_result = Mag(Folded(input_pairs))
        /\ input_pairs = FourPairs => part1_result = 445
        /\ input_pairs = Append(FourPairs, PairOf(5, 5)) => part1_result = 791
        /\ input_pairs = Append(Append(FourPairs, PairOf(5, 5)), PairOf(6, 6)) =>
               part1_result = 1137

\* part1 has returned 1137 for the six pairs, after merges that exploded
\* and split
C9_Witness ==
    /\ Part1Returned
    /\ Len(input_pairs) = 6
    /\ part1_result = 1137
    /\ HasRewritten

\* the magnitude part2 must get of the inputs at positions p[1] and p[2]
PairMagnitude(xs, p) == Mag(ReducedPair(xs[p[1]], xs[p[2]]))

\* the ordered pairs of distinct positions of n inputs
OrderedPairs(n) == {p \in (1..n) \X (1..n) : p[1] # p[2]}

\* the largest of a non-empty set of numbers
Greatest(S) == CHOOSE m \in S : \A k \in S : k <= m

\* C10: part2 returns the greatest magnitude(reduce([x_i, x_j])) over all
\* ordered pairs of distinct positions i, j, both orders counted; whatever
\* part1 and the pairs before have left behind, the magnitude obtained for a
\* pair is the one of a tree built afresh from the two inputs
C10_Part2Max ==
    /\ (pc = "part2" /\ perm > 1) =>
           /\ Len(magnitudes) = perm - 1
           /\ magnitudes[perm - 1] =
                  PairMagnitude(input_pairs, permutations(Len(input_pairs))[perm - 1])
    /\ pc = "done" =>
           part2_result = Greatest({PairMagnitude(input_pairs, p) :
                                    p \in OrderedPairs(Len(input_pairs))})

\* part2 has returned for three inputs or more, the greatest magnitude being
\* that of a pair whose reverse gives less
C10_Witness ==
    /\ pc = "done"
    /\ Len(input_pairs) >= 3
    /\ \E p \in OrderedPairs(Len(input_pairs)) :
           /\ p[1] > p[2]
           /\ PairMagnitude(input_pairs, p) = part2_result
           /\ PairMagnitude(input_pairs, <<p[2], p[1]>>) < part2_result

\* the text the Debug printer gives for the tree of main
Printed == fmt(tree)

\* C11: the text the Debug printer writes for a tree, reduced or not, is
\* parsed by parse_snailfish_problem into the value the tree holds, and the
\* tree built of that value has the same shape and the same leaves
C11_PrintParseRoundTrip ==
    tree.root_idx # None =>
        /\ Printed.res = "Ok"
        /\ parse_snailfish_problem(Printed.text).ok
        /\ parse_snailfish_problem(Printed.text).value = ValueOf(tree)
        /\ ValueOf(build(parse_snailfish_problem(Printed.text).value.left,
                         parse_snailfish_problem(Printed.text).value.right))
               = ValueOf(tree)

\* a tree not yet reduced, three levels deep or more, with a leaf of two
\* digits, is printed and parsed
C11_Witness ==
    /\ pc = "reduce_act"
    /\ split_candidate # None
    /\ 2 \in PairDepths(ValueOf(tree), 0)
    /\ \E i \in 1..Len(LeafSeq(ValueOf(tree))) : LeafSeq(ValueOf(tree))[i] >= 10
    /\ \E i \in 1..Len(LeafSeq(ValueOf(tree))) : LeafSeq(ValueOf(tree))[i] < 10

\* ------------------------------------------------------------------------
\* main: the input file is read and parsed line by line, then part1 is called
\* ------------------------------------------------------------------------

\* the longest text of which every spelling is tried as a line
MaxText == 5

\* the characters those texts are spelled with
TextChars == {"[", "]", ",", "0", "1"}

\* the characters a line is damaged with
DamageChars == TextChars \cup {" ", "-", "9"}

\* every text of at most n characters of TextChars
RECURSIVE Texts(_)
Texts(n) ==
    IF n = 0 THEN {<<>>}
    ELSE Only({shorter \cup {Append(t, c) : t \in {x \in shorter : Len(x) = n - 1},
                                          c \in TextChars} :
               shorter \in {Texts(n - 1)}})

\* the text of a value, as the input files spell it
RECURSIVE TextOf(_)
TextOf(v) ==
    IF v.kind = "Leaf" THEN display_u32(v.n)
    ELSE <<"[">> \o TextOf(v.left) \o <<",">> \o TextOf(v.right) \o <<"]">>

\* well-formed lines with nesting on either side
NestedLines ==
    {TextOf(Pair(PairOf(1, 2), Leaf(3))),
     TextOf(Pair(Leaf(10), PairOf(2, 13))),
     TextOf(Pair(PairOf(1, 2), Pair(PairOf(3, 4), Leaf(5))))}

\* a line with one character dropped, replaced or added, or two exchanged
Damaged(t) ==
    {SubSeq(t, 1, i - 1) \o SubSeq(t, i + 1, Len(t)) : i \in 1..Len(t)}
    \cup {[t EXCEPT ![i] = c] : i \in 1..Len(t), c \in DamageChars}
    \cup {SubSeq(t, 1, i) \o <<c>> \o SubSeq(t, i + 1, Len(t)) :
              i \in 0..Len(t), c \in DamageChars}
    \cup {[t EXCEPT ![i] = t[i + 1], ![i + 1] = t[i]] : i \in 1..(Len(t) - 1)}

\* lines of which files of several lines are made
FewLines ==
    {<<>>, TextOf(PairOf(1, 1)), TextOf(Pair(PairOf(1, 2), Leaf(3))), <<"7">>,
     <<"[", "1", ",", "1">>, <<"[", "1", ",", "1", "]", " ">>}

\* the input files: one line of any spelling, one damaged line, or up to
\* three lines
Files ==
    {<<t>> : t \in Texts(MaxText) \cup NestedLines
                   \cup UNION {Damaged(t) : t \in NestedLines}}
    \cup {<<a, b>> : a \in FewLines, b \in FewLines}
    \cup {<<a, b, c>> : a \in FewLines, b \in FewLines, c \in FewLines}

\* main starts: nothing is read yet
MainInit ==
    /\ lines \in Files
    /\ next_line = 1
    /\ input_pairs = <<>>
    /\ pc = "main"
    /\ caller = "part1"
    /\ tree = empty_tree
    /\ performed_action = "None"
    /\ explode_candidate = None
    /\ split_candidate = None
    /\ next_input = 2
    /\ perm = 1
    /\ magnitudes = <<>>
    /\ part1_result = -1
    /\ part2_result = -1
    /\ before = empty_tree
    /\ last_rewrite = "none"
    /\ rewritten = None
    /\ other_days_idle

\* what filter_map does with a line that is not empty
collect_line(res) ==
    IF res.ok
    THEN /\ input_pairs' = Append(input_pairs, res.value)
         /\ next_line' = next_line + 1
         /\ pc' = pc
    ELSE /\ pc' = "panic: Failed to parse input line"
         /\ UNCHANGED <<input_pairs, next_line>>

\* one turn of the filter_map of main: an empty line is dropped, any other
\* is parsed, and a line that does not parse ends main in expect()
ReadLine ==
    /\ pc = "main"
    /\ next_line <= Len(lines)
    /\ IF lines[next_line] = <<>>
       THEN /\ next_line' = next_line + 1
            /\ UNCHANGED <<input_pairs, pc>>
       ELSE collect_line(parse_snailfish_problem(lines[next_line]))
    /\ UNCHANGED <<lines, parts_vars, other_days>>

\* collect() is done: main calls part1 with all_pairs
CallPart1 ==
    /\ pc = "main"
    /\ next_line > Len(lines)
    /\ pc' = "part1"
    /\ UNCHANGED <<lines, next_line, input_pairs, parts_vars, other_days>>

MainNext ==
    \/ ReadLine
    \/ CallPart1

MainSpec == MainInit /\ [][MainNext]_vars

\* a text spells a number: digits only, one at least
IsNumberText(t) == t # <<>> /\ \A i \in 1..Len(t) : is_digit(t[i])

\* a text spells an expression, a text spells a pair: "[" expression ","
\* expression "]"
RECURSIVE IsExprText(_)
IsPairText(t) ==
    /\ Len(t) >= 5
    /\ t[1] = "["
    /\ t[Len(t)] = "]"
    /\ \E k \in 3..(Len(t) - 2) :
           /\ t[k] = ","
           /\ IsExprText(SubSeq(t, 2, k - 1))
           /\ IsExprText(SubSeq(t, k + 1, Len(t) - 1))

IsExprText(t) == IsNumberText(t) \/ IsPairText(t)

\* the number a text of digits spells
RECURSIVE NumberOf(_)
NumberOf(t) ==
    IF Len(t) = 1 THEN digit_value(t[1])
    ELSE 10 * NumberOf(SubSeq(t, 1, Len(t) - 1)) + digit_value(t[Len(t)])

\* the value a text that spells an expression stands for
RECURSIVE ValueOfText(_)
ValueOfText(t) ==
    IF IsNumberText(t) THEN Leaf(NumberOf(t))
    ELSE LET k == CHOOSE k \in 3..(Len(t) - 2) :
                      /\ t[k] = ","
                      /\ IsExprText(SubSeq(t, 2, k - 1))
                      /\ IsExprText(SubSeq(t, k + 1, Len(t) - 1))
         IN Pair(ValueOfText(SubSeq(t, 2, k - 1)),
                 ValueOfText(SubSeq(t, k + 1, Len(t) - 1)))

\* the values of the lines before line n that spell a pair, in their order
RECURSIVE ValuesBefore(_)
ValuesBefore(n) ==
    IF n = 1 THEN <<>>
    ELSE IF ~IsPairText(lines[n - 1]) THEN ValuesBefore(n - 1)
    ELSE Append(ValuesBefore(n - 1), ValueOfText(lines[n - 1]))

\* some line of the file is neither empty nor one whole pair expression
SomeLineMalformed == \E i \in 1..Len(lines) : lines[i] # <<>> /\ ~IsPairText(lines[i])

\* C12: parse_snailfish_problem accepts a line if and only if the line is
\* one whole bracketed pair expression, nothing before, inside or after it
\* being out of place, and gives its value; main calls part1 only when every
\* line that is not empty was accepted, and with a line that was not, it
\* panics with no result of part1 or part2
C12_ParseErrors ==
    /\ \A i \in 1..Len(lines) :
           /\ parse_snailfish_problem(lines[i]).ok <=> IsPairText(lines[i])
           /\ IsPairText(lines[i]) =>
                  parse_snailfish_problem(lines[i]).value = ValueOfText(lines[i])
    /\ pc = "main" =>
           /\ \A i \in 1..(next_line - 1) : lines[i] = <<>> \/ IsPairText(lines[i])
           /\ input_pairs = ValuesBefore(next_line)
    /\ pc = "part1" => ~SomeLineMalformed /\ input_pairs = ValuesBefore(Len(lines) + 1)
    /\ SomeLineMalformed => pc # "part1" /\ part1_result = -1 /\ part2_result = -1
    /\ pc = "panic: Failed to parse input line" => ~IsPairText(lines[next_line])

\* main has panicked at the third line, a pair expression followed by one
\* more character, after two lines were accepted
C12_Witness ==
    /\ pc = "panic: Failed to parse input line"
    /\ next_line = 3
    /\ Len(input_pairs) = 2
    /\ IsPairText(SubSeq(lines[3], 1, Len(lines[3]) - 1))

\* the pairs of positions of part2 evaluated so far
Evaluated == SubSeq(permutations(Len(input_pairs)), 1, Len(magnitudes))

\* C13: reduce gives the same final tree, in shape, leaves and magnitude, for
\* trees that hold the same values, however they were built: the tree part1
\* or part2 has grown and reduced step by step ends as the tree built afresh
\* of the same values does, and two pairs of part2 with the same two values
\* get the same magnitude
C13_ReduceDeterministic ==
    /\ Part1Returned =>
           /\ ValueOf(tree) = Folded(input_pairs)
           /\ part1_result = magnitude(reduce(build(Folded(input_pairs).left,
                                                    Folded(input_pairs).right)))
    /\ pc = "part2_magnitude" =>
           /\ ValueOf(tree) =
                  ReducedPair(input_pairs[permutations(Len(input_pairs))[perm][1]],
                              input_pairs[permutations(Len(input_pairs))[perm][2]])
           /\ ValueOf(reduce(tree)) = ValueOf(tree)
    /\ (pc = "part2" /\ perm > 1) =>
           \A k \in 1..Len(magnitudes) :
               (/\ input_pairs[Evaluated[k][1]] = input_pairs[Evaluated[Len(magnitudes)][1]]
                /\ input_pairs[Evaluated[k][2]] = input_pairs[Evaluated[Len(magnitudes)][2]])
                   => magnitudes[k] = magnitudes[Len(magnitudes)]

\* part2 has evaluated the same two values a second time, at other positions,
\* with rewrites on the way
C13_Witness ==
    /\ pc = "part2"
    /\ HasRewritten
    /\ \E k \in 1..(Len(magnitudes) - 1) :
           /\ input_pairs[Evaluated[k][1]] = input_pairs[Evaluated[Len(magnitudes)][1]]
           /\ input_pairs[Evaluated[k][2]] = input_pairs[Evaluated[Len(magnitudes)][2]]
           /\ input_pairs[Evaluated[k][1]] # input_pairs[Evaluated[k][2]]

\* the paths to the pairs of a value that lie at depth 4 or deeper, the
\* value being found at path
RECURSIVE DeepPairPaths(_, _)
DeepPairPaths(v, path) ==
    IF v.kind = "Leaf" THEN {}
    ELSE (IF Len(path) >= 4 THEN {path} ELSE {})
         \cup DeepPairPaths(v.left, Append(path, "Left"))
         \cup DeepPairPaths(v.right, Append(path, "Right"))

\* path p is a proper prefix of path q: the node at p contains the node at q
Contains(p, q) == Len(p) < Len(q) /\ SubSeq(q, 1, Len(p)) = p

\* neither contains the other, and p turns left where q turns right
LeftOf(p, q) ==
    \E i \in 1..Len(p) :
        /\ i <= Len(q)
        /\ SubSeq(p, 1, i - 1) = SubSeq(q, 1, i - 1)
        /\ p[i] = "Left"
        /\ q[i] = "Right"

\* p is met before q by a left-biased pre-order traversal, by a left-biased
\* post-order traversal
PreOrderBefore(p, q) == Contains(p, q) \/ LeftOf(p, q)

PostOrderBefore(p, q) == Contains(q, p) \/ LeftOf(p, q)

\* reduce has looked up its candidates in a tree
CandidatesLookedUp == pc = "reduce_act"

\* the path to the explode candidate
CandidatePath == PathTo(tree, explode_candidate)

\* C20, as claimed: the explode candidate is the first pair at depth >= 4 of
\* a left-biased pre-order traversal, the outer one of two nested ones
C20_PreOrderCandidate ==
    (CandidatesLookedUp /\ DeepPairPaths(ValueOf(tree), <<>>) # {}) =>
        /\ explode_candidate # None
        /\ CandidatePath \in DeepPairPaths(ValueOf(tree), <<>>)
        /\ \A q \in DeepPairPaths(ValueOf(tree), <<>>) \ {CandidatePath} :
               PreOrderBefore(CandidatePath, q)

\* C20, amended: the explode candidate is the first pair at depth >= 4 of a
\* left-biased post-order traversal: the leftmost of the pairs at depth >= 4
\* that hold two leaves, so of two nested pairs the inner one; and there is
\* none exactly when no pair lies at depth >= 4
C20_PostOrderCandidate ==
    CandidatesLookedUp =>
        IF DeepPairPaths(ValueOf(tree), <<>>) = {} THEN explode_candidate = None
        ELSE /\ explode_candidate # None
             /\ CandidatePath \in DeepPairPaths(ValueOf(tree), <<>>)
             /\ SubValue(ValueOf(tree), CandidatePath).left.kind = "Leaf"
             /\ SubValue(ValueOf(tree), CandidatePath).right.kind = "Leaf"
             /\ \A q \in DeepPairPaths(ValueOf(tree), <<>>) \ {CandidatePath} :
                    PostOrderBefore(CandidatePath, q)

\* a candidate was looked up in a tree with a pair at depth >= 4 that holds
\* a pair, and with a pair at depth >= 4 right of the candidate
C20_Witness ==
    /\ CandidatesLookedUp
    /\ explode_candidate # None
    /\ \E q \in DeepPairPaths(ValueOf(tree), <<>>) : Contains(q, CandidatePath)
    /\ \E q \in DeepPairPaths(ValueOf(tree), <<>>) : LeftOf(CandidatePath, q)

\* ------------------------------------------------------------------------
\* day4: giant squid bingo
\* ------------------------------------------------------------------------

BOARD_SIZE == 5

\* BingoTile
Unmarked(n) == [marked |-> FALSE, n |-> n]

Marked(n) == [marked |-> TRUE, n |-> n]

\* matches!(tile, BingoTile::Marked(_))
is_marked(tile) == tile.marked

\* the all() over one row of is_winner
won_by_row(board, row) ==
    \A col \in 1..BOARD_SIZE : is_marked(board[row][col])

\* the inner for loop of is_winner from a row on: it returns true on a full
\* row, breaks on the first unmarked tile of the column, and otherwise runs
\* to the end with won_by_col still true
RECURSIVE column_scan(_, _, _)
column_scan(board, col, row) ==
    IF row > BOARD_SIZE THEN "won_by_col"
    ELSE IF won_by_row(board, row) THEN "return true"
    ELSE IF ~is_marked(board[row][col]) THEN "break"
    ELSE column_scan(board, col, row + 1)

\* the outer for loop of is_winner from a column on
RECURSIVE is_winner_from(_, _)
is_winner_from(board, col) ==
    IF col > BOARD_SIZE THEN FALSE
    ELSE IF column_scan(board, col, 1) # "break" THEN TRUE
    ELSE is_winner_from(board, col + 1)

is_winner(board) == is_winner_from(board, 1)

\* BingoBoard::mark_n: every unmarked tile that holds n becomes marked
mark_n(board, n) ==
    [row \in 1..BOARD_SIZE |->
        [col \in 1..BOARD_SIZE |->
            IF board[row][col] = Unmarked(n) THEN Marked(n) ELSE board[row][col]]]

\* BingoGame::from: the boards start unmarked and none has won
game_from(input) ==
    [calls |-> input.calls,
     boards |-> [i \in 1..Len(input.boards) |->
                    [won |-> FALSE,
                     board |-> [row \in 1..BOARD_SIZE |->
                                   [col \in 1..BOARD_SIZE |->
                                       Unmarked(input.boards[i][row][col])]]]]]

\* the body of the for loop of next() for a board that is marked already
check_winner(marked) == [won |-> is_winner(marked), board |-> marked]

\* the body of the for loop of next() for one board
play_board(board_state, call) ==
    IF board_state.won THEN board_state
    ELSE check_winner(mark_n(board_state.board, call))

\* the for loop of next(): all the boards after one call
play_call(boards, call) ==
    [i \in 1..Len(boards) |-> play_board(boards[i], call)]

\* the positions from i on of the boards that won on this call
RECURSIVE winning_from(_, _, _)
winning_from(boards, played, i) ==
    IF i > Len(boards) THEN <<>>
    ELSE IF ~boards[i].won /\ played[i].won
         THEN <<i>> \o winning_from(boards, played, i + 1)
         ELSE winning_from(boards, played, i + 1)

\* winning_boards of next(): clones of the boards that won on this call
winning_boards(played, from) == [j \in 1..Len(from) |-> played[from[j]].board]

\* Some((call, winning_boards)) of next(), with what is left of the game
found_winners(call, rest, played, from) ==
    [some |-> TRUE,
     item |-> [call |-> call, boards |-> winning_boards(played, from)],
     from |-> from,
     game |-> [calls |-> rest, boards |-> played]]

\* the while loop of next(): calls are popped from the front until one has
\* winners; when the calls run out the result is None
RECURSIVE next_call(_, _)
after_call(call, rest, boards, played) ==
    IF winning_from(boards, played, 1) # <<>>
    THEN found_winners(call, rest, played, winning_from(boards, played, 1))
    ELSE next_call(rest, played)

next_call(calls, boards) ==
    IF calls = <<>>
    THEN [some |-> FALSE, item |-> None, from |-> <<>>,
          game |-> [calls |-> calls, boards |-> boards]]
    ELSE Only({after_call(Head(calls), Tail(calls), boards, played) :
                  played \in {play_call(boards, Head(calls))}})

\* ---- the games played ----

MaxCalls == 6
MaxBoards == 2

\* the numbers that are called
CallNumbers == {0, 5, 6, 7, 8, 9}

\* the numbers 0..24 row by row, column by column, and row by row from 5 on
RowMajor ==
    [row \in 1..BOARD_SIZE |-> [col \in 1..BOARD_SIZE |-> 5 * (row - 1) + (col - 1)]]

ColMajor ==
    [row \in 1..BOARD_SIZE |-> [col \in 1..BOARD_SIZE |-> 5 * (col - 1) + (row - 1)]]

RowMajorFrom5 ==
    [row \in 1..BOARD_SIZE |->
        [col \in 1..BOARD_SIZE |-> (5 * (row - 1) + (col - 1) + 5) % 25]]

BingoBoards == {RowMajor, ColMajor, RowMajorFrom5}

\* every number is called at most once
CallLists(n) ==
    UNION {{c \in [1..k -> CallNumbers] : \A i, j \in 1..k : c[i] = c[j] => i = j} :
              k \in 0..n}

BoardLists(n) == UNION {[1..k -> BingoBoards] : k \in 1..n}

BingoInputs ==
    {[calls |-> c, boards |-> b] : c \in CallLists(MaxCalls), b \in BoardLists(MaxBoards)}

\* main of day18 is not running
day18_idle ==
    /\ input_pairs = <<>>
    /\ pc = "idle"
    /\ caller = "part1"
    /\ tree = empty_tree
    /\ performed_action = "None"
    /\ explode_candidate = None
    /\ split_candidate = None
    /\ next_input = 2
    /\ perm = 1
    /\ magnitudes = <<>>
    /\ part1_result = -1
    /\ part2_result = -1
    /\ before = empty_tree
    /\ last_rewrite = "none"
    /\ rewritten = None

\* what day4 leaves alone
outside_day4 == <<day18_vars, main_vars, day11_vars, day15_vars, day12_vars, day5_vars, day21_vars>>

\* game.play() on a fresh game
Day4Init ==
    /\ bingo_input \in BingoInputs
    /\ game = game_from(bingo_input)
    /\ yielded = <<>>
    /\ yielded_from = <<>>
    /\ drawn = <<>>
    /\ day4_pc = "play"
    /\ day18_idle
    /\ main_idle
    /\ day11_idle
    /\ day15_idle
    /\ day12_idle
    /\ day5_idle
    /\ day21_idle

\* what the caller of next() sees
returned(res) ==
    /\ game' = res.game
    /\ IF ~res.some
       THEN /\ day4_pc' = "done"
            /\ UNCHANGED <<yielded, yielded_from, drawn>>
       ELSE /\ day4_pc' = "play"
            /\ yielded' = Append(yielded, res.item)
            /\ yielded_from' = Append(yielded_from, res.from)
            /\ drawn' = Append(drawn, Len(bingo_input.calls) - Len(res.game.calls))

\* one call of BingoPlayer::next
PlayerNext ==
    /\ day4_pc = "play"
    /\ \E res \in {next_call(game.calls, game.boards)} : returned(res)
    /\ UNCHANGED <<bingo_input, outside_day4>>

Day4Next == PlayerNext

Day4Spec == Day4Init /\ [][Day4Next]_vars

\* ---- what a bingo game is ----

\* some row or some column of the board is marked all over
HasFullLine(board) ==
    \/ \E row \in 1..BOARD_SIZE : \A col \in 1..BOARD_SIZE : board[row][col].marked
    \/ \E col \in 1..BOARD_SIZE : \A row \in 1..BOARD_SIZE : board[row][col].marked

\* board i of the input with the first k calls marked on it
MarkedAfter(i, k) ==
    [row \in 1..BOARD_SIZE |->
        [col \in 1..BOARD_SIZE |->
            [marked |-> \E j \in 1..k :
                            bingo_input.calls[j] = bingo_input.boards[i][row][col],
             n |-> bingo_input.boards[i][row][col]]]]

\* the call on which board i gets its first full line, 0 if it never does
FirstFull(i) ==
    IF \E k \in 1..Len(bingo_input.calls) : HasFullLine(MarkedAfter(i, k))
    THEN CHOOSE k \in 1..Len(bingo_input.calls) :
            /\ HasFullLine(MarkedAfter(i, k))
            /\ \A j \in 1..(k - 1) : ~HasFullLine(MarkedAfter(i, j))
    ELSE 0

\* how many calls have been popped
Popped == Len(bingo_input.calls) - Len(game.calls)

\* C14: is_winner is true of a board exactly when one of its 5 rows or one
\* of its 5 columns is marked all over, whatever the marking
C14_IsWinnerIffFullLine ==
    \A i \in 1..Len(game.boards) :
        is_winner(game.boards[i].board) <=> HasFullLine(game.boards[i].board)

\* the positions of the boards whose first full line comes with call k
FullOn(k) == {i \in 1..Len(bingo_input.boards) : FirstFull(i) = k}

\* the members of a set of positions in rising order
RECURSIVE Rising(_)
Rising(S) ==
    IF S = {} THEN <<>>
    ELSE <<Least(S)>> \o Rising(S \ {Least(S)})

\* C15: BingoPlayer yields the successive winners of the game: the calls are
\* popped from the front, each item holds the call just popped and all the
\* boards (at least one) that got their first full row or column with that
\* call, no board is yielded twice, and a board that has won keeps the tiles
\* it had when it won
C15_YieldsSuccessiveWinners ==
    /\ game.calls = SubSeq(bingo_input.calls, Popped + 1, Len(bingo_input.calls))
    /\ \A j \in 1..Len(yielded) :
        /\ drawn[j] \in 1..Popped
        /\ yielded[j].call = bingo_input.calls[drawn[j]]
        /\ yielded[j].boards # <<>>
        /\ yielded_from[j] = Rising(FullOn(drawn[j]))
        /\ yielded[j].boards =
               [n \in 1..Len(yielded_from[j]) |-> MarkedAfter(yielded_from[j][n], drawn[j])]
    /\ \A k \in 1..Popped : FullOn(k) # {} => \E j \in 1..Len(drawn) : drawn[j] = k
    /\ \A j, k \in 1..Len(yielded) :
        j # k => \A n \in 1..Len(yielded_from[j]), m \in 1..Len(yielded_from[k]) :
                    yielded_from[j][n] # yielded_from[k][m]
    /\ \A j \in 1..Len(yielded) : \A n \in 1..Len(yielded_from[j]) :
        /\ game.boards[yielded_from[j][n]].won
        /\ game.boards[yielded_from[j][n]].board = yielded[j].boards[n]

\* ------------------------------------------------------------------------
\* day11: dumbo octopuses
\* ------------------------------------------------------------------------

\* positions are (row, col) counted from 0, as in the source
tile(board, pos) == board[pos[1] + 1][pos[2] + 1]

set_tile(board, pos, value) ==
    [board EXCEPT ![pos[1] + 1][pos[2] + 1] = value]

positions(board) ==
    UNION {{<<i, j>> : j \in 0..(Len(board[i + 1]) - 1)} : i \in 0..(Len(board) - 1)}

\* Board::is_on_board
is_on_board(board, pos) ==
    /\ pos[1] \in 0..(Len(board) - 1)
    /\ pos[2] \in 0..(Len(board[pos[1] + 1]) - 1)

\* AdjacencyDelta, in the order of the two for loops of get_adjacent_indices
deltas ==
    <<<<-1, -1>>, <<-1, 0>>, <<-1, 1>>,
      <<0, -1>>, <<0, 0>>, <<0, 1>>,
      <<1, -1>>, <<1, 0>>, <<1, 1>>>>

\* the body of the inner for loop of get_adjacent_indices: the three continue
\* cases, then the candidate is pushed if it is on the board
is_adjacent_index(board, pos, d) ==
    /\ ~(d[1] = 0 /\ d[2] = 0)
    /\ ~(d[1] = -1 /\ pos[1] = 0)
    /\ ~(d[2] = -1 /\ pos[2] = 0)
    /\ is_on_board(board, <<pos[1] + d[1], pos[2] + d[2]>>)

\* Board::get_adjacent_indices for a position on the board
RECURSIVE adjacent_from(_, _, _)
adjacent_from(board, pos, k) ==
    IF k > Len(deltas) THEN <<>>
    ELSE IF is_adjacent_index(board, pos, deltas[k])
         THEN <<<<pos[1] + deltas[k][1], pos[2] + deltas[k][2]>>>>
                  \o adjacent_from(board, pos, k + 1)
         ELSE adjacent_from(board, pos, k + 1)

get_adjacent_indices(board, pos) == adjacent_from(board, pos, 1)

\* "Setup flashers": a tile below 9 goes up by one, any other becomes 0 and
\* an active flasher
setup_next(board) ==
    [i \in 1..Len(board) |->
        [j \in 1..Len(board[i]) |-> IF board[i][j] < 9 THEN board[i][j] + 1 ELSE 0]]

setup_flashers(board) == {pos \in positions(board) : tile(board, pos) >= 9}

\* the condition under which a neighbour is put into to_flash, without the
\* test of flashed
above_nine(value, pos, done) == value > 9

\* the condition under which a neighbour is put into to_flash
must_flash(value, pos, done) == value > 9 /\ pos \notin done

\* the body of the for loop over adj_indices; st holds next and to_flash
raise_adjacent(pos, st, active, done) ==
    IF pos \in active THEN st
    ELSE [next |-> set_tile(st.next, pos, tile(st.next, pos) + 1),
          to_flash |-> IF must_flash(tile(st.next, pos) + 1, pos, done)
                       THEN st.to_flash \cup {pos}
                       ELSE st.to_flash]

\* the for loop over adj_indices
RECURSIVE raise_all(_, _, _, _, _)
raise_all(adj, k, st, active, done) ==
    IF k > Len(adj) THEN st
    ELSE raise_all(adj, k + 1, raise_adjacent(adj[k], st, active, done), active, done)

\* "Reset all flashed items"
reset_flashed(board, done) ==
    [i \in 1..Len(board) |->
        [j \in 1..Len(board[i]) |->
            IF <<i - 1, j - 1>> \in done THEN 0 ELSE board[i][j]]]

\* ---- the boards simulated ----

MaxRows == 2
MaxCols == 3
MaxSteps == 2

\* the energy levels the boards start with
OctoLevels == {0, 6, 8, 9}

\* rectangular boards
OctoBoards ==
    UNION {[1..r -> [1..c -> OctoLevels]] : r \in 1..MaxRows, c \in 1..MaxCols}

no_counts(board) == [pos \in positions(board) |-> 0]

\* what day11 leaves alone
outside_day11 == <<day18_vars, main_vars, day4_vars, day15_vars, day12_vars, day5_vars, day21_vars>>

\* part1 is called with the board of the input
Day11Init ==
    /\ current_board \in OctoBoards
    /\ total_flashes = 0
    /\ steps_taken = 0
    /\ octo_next = <<>>
    /\ num_flashes = 0
    /\ active_flashers = {}
    /\ flashed = {}
    /\ to_flash = {}
    /\ unvisited = {}
    /\ flash_count = <<>>
    /\ day11_pc = "part1"
    /\ day18_idle
    /\ main_idle
    /\ day4_idle
    /\ day15_idle
    /\ day12_idle
    /\ day5_idle
    /\ day21_idle

\* part1 calls simulate_step, which runs up to the while loop
SimulateStepSetup ==
    /\ day11_pc = "part1"
    /\ steps_taken < MaxSteps
    /\ octo_next' = setup_next(current_board)
    /\ num_flashes' = 0
    /\ active_flashers' = setup_flashers(current_board)
    /\ unvisited' = setup_flashers(current_board)
    /\ flashed' = {}
    /\ to_flash' = {}
    /\ flash_count' = no_counts(current_board)
    /\ day11_pc' = "flash"
    /\ UNCHANGED <<current_board, total_flashes, steps_taken, outside_day11>>

\* what one turn of the for loop over &active_flashers leaves behind
flash_result(pos, st) ==
    /\ octo_next' = st.next
    /\ to_flash' = st.to_flash
    /\ unvisited' = unvisited \ {pos}
    /\ num_flashes' = num_flashes + 1
    /\ flashed' = flashed \cup {pos}
    /\ flash_count' = [flash_count EXCEPT ![pos] = @ + 1]

\* one turn of the for loop over &active_flashers; a HashSet hands out its
\* members in no fixed order
FlashOne ==
    /\ day11_pc = "flash"
    /\ \E pos \in unvisited :
         \E st \in {raise_all(get_adjacent_indices(octo_next, pos), 1,
                              [next |-> octo_next, to_flash |-> to_flash],
                              active_flashers, flashed \cup {pos})} :
            flash_result(pos, st)
    /\ UNCHANGED <<current_board, total_flashes, steps_taken, active_flashers,
                   day11_pc, outside_day11>>

\* the for loop is over and to_flash becomes the next active_flashers
NextWave ==
    /\ day11_pc = "flash"
    /\ unvisited = {}
    /\ active_flashers # {}
    /\ active_flashers' = to_flash
    /\ unvisited' = to_flash
    /\ to_flash' = {}
    /\ UNCHANGED <<current_board, total_flashes, steps_taken, octo_next, num_flashes,
                   flashed, flash_count, day11_pc, outside_day11>>

\* the while loop is over: the flashed tiles are reset and simulate_step
\* returns (next, num_flashes)
SimulateStepReturn ==
    /\ day11_pc = "flash"
    /\ active_flashers = {}
    /\ octo_next' = reset_flashed(octo_next, flashed)
    /\ day11_pc' = "returned"
    /\ UNCHANGED <<current_board, total_flashes, steps_taken, num_flashes,
                   active_flashers, flashed, to_flash, unvisited, flash_count,
                   outside_day11>>

\* part1 adds the flashes up and goes on with the new board
Part1NextStep ==
    /\ day11_pc = "returned"
    /\ total_flashes' = total_flashes + num_flashes
    /\ current_board' = octo_next
    /\ steps_taken' = steps_taken + 1
    /\ day11_pc' = "part1"
    /\ UNCHANGED <<octo_next, num_flashes, active_flashers, flashed, to_flash,
                   unvisited, flash_count, outside_day11>>

Day11Next ==
    \/ SimulateStepSetup
    \/ FlashOne
    \/ NextWave
    \/ SimulateStepReturn
    \/ Part1NextStep

Day11Spec == Day11Init /\ [][Day11Next]_vars

\* simulate_step has returned
StepReturned == day11_pc = "returned"

\* the positions the for loop over &active_flashers has visited in this step
HaveFlashed == {pos \in DOMAIN flash_count : flash_count[pos] >= 1}

\* what simulate_step returns for the board it was given
StepResultSound ==
    /\ Len(octo_next) = Len(current_board)
    /\ \A i \in 1..Len(current_board) : Len(octo_next[i]) = Len(current_board[i])
    /\ \A pos \in positions(octo_next) : tile(octo_next, pos) \in 0..9
    /\ num_flashes = Cardinality(HaveFlashed)
    /\ num_flashes = Cardinality({pos \in positions(octo_next) : tile(octo_next, pos) = 0})

\* C16: simulate_step on a board with all cells in 0..=9 returns a board of
\* the same dimensions with all cells in 0..=9; no cell flashes more than
\* once during the step; the flash count returned is the number of cells
\* that flashed and the number of cells that are 0 in the board returned;
\* the board given is not modified while the step runs
C16_SimulateStep ==
    /\ [](\A pos \in DOMAIN flash_count : flash_count[pos] <= 1)
    /\ [](StepReturned => StepResultSound)
    /\ [][day11_pc = "flash" => current_board' = current_board]_vars

\* a step has returned in which a cell that started below 9 has flashed,
\* after a neighbour did, while another cell has not flashed at all
C16_Witness ==
    /\ StepReturned
    /\ \E pos \in HaveFlashed : tile(current_board, pos) < 9
    /\ \E pos \in positions(current_board) : pos \notin HaveFlashed
    /\ num_flashes >= 3

\* ------------------------------------------------------------------------
\* day15: chiton
\* ------------------------------------------------------------------------

\* AdjacencyDelta::try_add: Some(size + delta), None below 0
try_add(delta, size) == IF delta = -1 /\ size = 0 THEN None - 1 ELSE size + delta

\* the body of the two for loops of get_adjacent_indices of day15: no
\* diagonal, no index below 0, and the position is within the first row's
\* length and the number of rows
is_orthogonal_index(input, pos, d) ==
    /\ d[1] = 0 \/ d[2] = 0
    /\ try_add(d[1], pos[1]) >= 0 /\ try_add(d[2], pos[2]) >= 0
    /\ try_add(d[1], pos[1]) < Len(input)
    /\ try_add(d[2], pos[2]) < Len(input[1])

\* get_adjacent_indices of day15 (Zero, Zero is not skipped there: the
\* position itself is among its neighbours)
RECURSIVE orthogonal_from(_, _, _)
orthogonal_from(input, pos, k) ==
    IF k > Len(deltas) THEN <<>>
    ELSE IF is_orthogonal_index(input, pos, deltas[k])
         THEN <<<<pos[1] + deltas[k][1], pos[2] + deltas[k][2]>>>>
                  \o orthogonal_from(input, pos, k + 1)
         ELSE orthogonal_from(input, pos, k + 1)

get_orthogonal_indices(input, pos) == orthogonal_from(input, pos, 1)

\* HashMap::insert
insert(map, key, value) ==
    [k \in DOMAIN map \cup {key} |-> IF k = key THEN value ELSE map[k]]

no_entries == [k \in {} |-> 0]

\* Ord for SearchPosition compares the risks the wrong way round
pops_greatest_risk(v, queue) == \A w \in queue : v.risk >= w.risk

\* Ord for SearchPosition is the reverse of the order of the risks, so that
\* the max-heap pops a position of least risk
pops_first(v, queue) == \A w \in queue : v.risk <= w.risk

\* find_cost_from_path; cost is what was added up so far, and the result is
\* None - 1 when a parent is missing
RECURSIVE find_cost_from_path(_, _, _, _, _)
find_cost_from_path(input, source, cost_cursor, parents, cost) ==
    IF cost_cursor = source THEN cost
    ELSE IF cost_cursor \notin DOMAIN parents THEN None - 1
    ELSE find_cost_from_path(input, source, parents[cost_cursor], parents,
                             cost + tile(input, cost_cursor))

\* the body of the for loop over the neighbours; st holds risks,
\* node_parents and visit_queue
consider_neighbor(input, from, neighbor_pos, st) ==
    IF \/ neighbor_pos \notin DOMAIN st.risks
       \/ from.risk + tile(input, neighbor_pos) < st.risks[neighbor_pos]
    THEN [risks |-> insert(st.risks, neighbor_pos, from.risk + tile(input, neighbor_pos)),
          node_parents |-> insert(st.node_parents, neighbor_pos, from.position),
          visit_queue |-> st.visit_queue \cup
                             {[risk |-> from.risk + tile(input, neighbor_pos),
                               position |-> neighbor_pos]}]
    ELSE st

\* the for loop over the neighbours
RECURSIVE consider_all(_, _, _, _, _)
consider_all(input, from, adj, k, st) ==
    IF k > Len(adj) THEN st
    ELSE consider_all(input, from, adj, k + 1, consider_neighbor(input, from, adj[k], st))

target_pos(input) == <<Len(input) - 1, Len(input[1]) - 1>>

\* ---- the caves searched ----

MaxCaveRows == 3
MaxCaveCols == 3

\* every cave up to MaxCaveRows x MaxCaveCols with these two risks
FewRisks == {1, 9}

SmallCaves ==
    UNION {[1..r -> [1..c -> FewRisks]] : r \in 1..MaxCaveRows, c \in 1..MaxCaveCols}

\* caves in which the least risky path has to go up or to the left
WindingCaves ==
    {<<<<1, 9, 1, 1, 1>>,
       <<1, 9, 1, 9, 1>>,
       <<1, 1, 1, 9, 1>>>>,
     <<<<1, 1, 1>>,
       <<9, 9, 2>>,
       <<3, 1, 1>>,
       <<1, 9, 9>>,
       <<1, 1, 4>>>>,
     <<<<5, 8, 1, 1>>,
       <<1, 7, 1, 6>>,
       <<2, 1, 3, 9>>>>}

\* what day15 leaves alone
outside_day15 == <<day18_vars, main_vars, day4_vars, day11_vars, day12_vars, day5_vars, day21_vars>>

\* part1 up to its while loop
Day15Init ==
    /\ cave \in SmallCaves \cup WindingCaves
    /\ risks = insert(no_entries, <<0, 0>>, 0)
    /\ node_parents = no_entries
    /\ visit_queue = {[risk |-> 0, position |-> <<0, 0>>]}
    /\ visiting_node = None
    /\ part1_cost = -1
    /\ day15_pc = "search"
    /\ day18_idle
    /\ main_idle
    /\ day4_idle
    /\ day11_idle
    /\ day12_idle
    /\ day5_idle
    /\ day21_idle

\* what is left of one turn of the while loop after the pop
visit_popped(node) ==
    IF node.position = target_pos(cave)
    THEN /\ day15_pc' = "after loop"
         /\ UNCHANGED <<risks, node_parents>>
         /\ visit_queue' = visit_queue \ {node}
    ELSE IF node.risk # risks[node.position]
    THEN /\ visit_queue' = visit_queue \ {node}
         /\ UNCHANGED <<risks, node_parents, day15_pc>>
    ELSE \E st \in {consider_all(cave, node, get_orthogonal_indices(cave, node.position), 1,
                                 [risks |-> risks, node_parents |-> node_parents,
                                  visit_queue |-> visit_queue \ {node}])} :
            /\ risks' = st.risks
            /\ node_parents' = st.node_parents
            /\ visit_queue' = st.visit_queue
            /\ UNCHANGED day15_pc

\* one turn of the while loop of part1; among positions of equal risk the
\* heap may pop any
VisitNext ==
    /\ day15_pc = "search"
    /\ \E node \in visit_queue :
        /\ pops_first(node, visit_queue)
        /\ visiting_node' = node
        /\ visit_popped(node)
    /\ UNCHANGED <<cave, part1_cost, outside_day15>>

\* what expect() makes of the result of find_cost_from_path
expect_cost(cost) ==
    IF cost >= 0
    THEN part1_cost' = cost /\ day15_pc' = "returned"
    ELSE part1_cost' = part1_cost /\ day15_pc' = "panic: No cost could be calculated"

\* the while loop is over, by break or because the heap is empty
Part1Return ==
    /\ day15_pc = "after loop" \/ (day15_pc = "search" /\ visit_queue = {})
    /\ expect_cost(find_cost_from_path(cave, <<0, 0>>, target_pos(cave), node_parents, 0))
    /\ UNCHANGED <<cave, risks, node_parents, visit_queue, visiting_node, outside_day15>>

Day15Next ==
    \/ VisitNext
    \/ Part1Return

Day15Spec == Day15Init /\ [][Day15Next]_vars

\* ---- what the least risky path costs ----

\* the cells next to a cell: one step up, down, left or right
NextTo(input, pos) ==
    {q \in positions(input) :
        \/ q[1] = pos[1] /\ (q[2] = pos[2] + 1 \/ q[2] = pos[2] - 1)
        \/ q[2] = pos[2] /\ (q[1] = pos[1] + 1 \/ q[1] = pos[1] - 1)}

\* the risks of all paths from pos to the bottom right that enter no cell
\* of seen and no cell twice; the cell the path starts in is not counted
RECURSIVE PathRisks(_, _, _)
PathRisks(input, pos, seen) ==
    IF pos = target_pos(input) THEN {0}
    ELSE UNION {{tile(input, q) + c : c \in PathRisks(input, q, seen \cup {q})} :
                   q \in NextTo(input, pos) \ seen}

\* the same for the paths that only go down or to the right
RECURSIVE DirectPathRisks(_, _)
DirectPathRisks(input, pos) ==
    IF pos = target_pos(input) THEN {0}
    ELSE UNION {{tile(input, q) + c : c \in DirectPathRisks(input, q)} :
                   q \in {n \in NextTo(input, pos) : n[1] >= pos[1] /\ n[2] >= pos[2]}}

\* C17: part1 returns the least sum of the risks of the cells entered over
\* all paths of orthogonally adjacent cells from the top left to the bottom
\* right (start not counted, target counted), and the cost rebuilt from
\* node_parents is the risk the target was popped with. A path that enters
\* a cell twice costs more than the same path without the loop, so the
\* paths without repeated cells decide the minimum.
C17_Part1LeastRisk ==
    day15_pc = "returned" =>
        /\ part1_cost = Least(PathRisks(cave, <<0, 0>>, {<<0, 0>>}))
        /\ visiting_node.position = target_pos(cave)
        /\ part1_cost = visiting_node.risk

\* part1 has returned for a cave whose least risky path has to turn back up
\* or left: it is cheaper than every path that only goes down and right
C17_Witness ==
    /\ day15_pc = "returned"
    /\ part1_cost < Least(DirectPathRisks(cave, <<0, 0>>))

\* ------------------------------------------------------------------------
\* day12: passage pathing
\* ------------------------------------------------------------------------

\* a Cave is its name, a sequence of characters
START_CAVE_NAME == <<"s", "t", "a", "r", "t">>

END_CAVE_NAME == <<"e", "n", "d">>

AsciiUppercase == {"A", "B", "C", "D"}

\* Cave::is_big: some character of the name is an upper-case letter
is_big(name) == \E i \in 1..Len(name) : name[i] \in AsciiUppercase

\* HashMap::get(..).is_some()
has_bucket(map, key) == key \in DOMAIN map

\* the first half of the body of the for loop of adjacencies_to_map
add_to_bucket(map, from, to) ==
    IF has_bucket(map, from)
    THEN [map EXCEPT ![from] = Append(@, to)]
    ELSE insert(map, from, <<to>>)

\* adjacencies_to_map: every line is entered in both directions
RECURSIVE adjacencies_to_map_from(_, _, _)
adjacencies_to_map_from(adjacencies, k, res) ==
    IF k > Len(adjacencies) THEN res
    ELSE adjacencies_to_map_from(adjacencies, k + 1,
             add_to_bucket(add_to_bucket(res, adjacencies[k][1], adjacencies[k][2]),
                           adjacencies[k][2], adjacencies[k][1]))

adjacencies_to_map(adjacencies) == adjacencies_to_map_from(adjacencies, 1, no_entries)

\* path.contains(cave)
contains(path, x) == \E i \in 1..Len(path) : path[i] = x

\* count_times_cave_encountered, for one cave (0 for a cave not in the path)
times_encountered(path, element) ==
    Cardinality({i \in 1..Len(path) : path[i] = element})

\* have_gone_somewhere_twice of generate_next_hops
have_gone_somewhere_twice(path) ==
    \E i \in 1..Len(path) : ~is_big(path[i]) /\ times_encountered(path, path[i]) = 2

\* generate_next_hops without the case of start and end
is_never_start_or_end(target) == FALSE

\* the test for start and end of generate_next_hops
is_start_or_end(target) == target = START_CAVE_NAME \/ target = END_CAVE_NAME

\* generate_next_hops(..).is_some()
generate_next_hops(which, target, path) ==
    IF is_big(target) THEN TRUE
    ELSE IF is_start_or_end(target) THEN ~contains(path, target)
    ELSE IF which = "Part1" THEN ~contains(path, target)
    ELSE \/ have_gone_somewhere_twice(path) /\ times_encountered(path, target) = 0
         \/ ~have_gone_somewhere_twice(path) /\ times_encountered(path, target) < 2

\* to_visit as find_num_paths starts with it
RECURSIVE first_hops(_, _)
first_hops(start_adjacencies, k) ==
    IF k > Len(start_adjacencies) THEN <<>>
    ELSE <<<<start_adjacencies[k], <<START_CAVE_NAME, start_adjacencies[k]>>>>>>
             \o first_hops(start_adjacencies, k + 1)

\* the for loop over visiting_adjancencies: what it pushes on to_visit
RECURSIVE next_hops(_, _, _, _)
next_hops(which, adj, path, k) ==
    IF k > Len(adj) THEN <<>>
    ELSE IF generate_next_hops(which, adj[k], path)
         THEN <<<<adj[k], Append(path, adj[k])>>>> \o next_hops(which, adj, path, k + 1)
         ELSE next_hops(which, adj, path, k + 1)

\* ---- the cave maps searched ----

MaxConnections == 5

CaveA == <<"a">>

CaveB == <<"b">>

CaveBig == <<"A">>

\* the lines a map is made of; the last three repeat a connection the other
\* way round, connect a cave to itself, and connect start to itself
ConnectionPool ==
    <<<<START_CAVE_NAME, CaveBig>>, <<START_CAVE_NAME, CaveA>>, <<CaveBig, CaveA>>,
      <<CaveBig, CaveB>>, <<CaveA, CaveB>>, <<CaveBig, END_CAVE_NAME>>,
      <<CaveA, END_CAVE_NAME>>, <<CaveB, START_CAVE_NAME>>,
      <<CaveA, START_CAVE_NAME>>, <<CaveA, CaveA>>, <<START_CAVE_NAME, START_CAVE_NAME>>>>

\* the lines of the pool at the given places, in the order of the pool
RECURSIVE Chosen(_)
Chosen(places) ==
    IF places = {} THEN <<>>
    ELSE <<ConnectionPool[Least(places)]>> \o Chosen(places \ {Least(places)})

CaveMaps ==
    {Chosen(places) : places \in {S \in SUBSET (1..Len(ConnectionPool)) :
                                      Cardinality(S) \in 1..MaxConnections}}

\* what day12 leaves alone
outside_day12 == <<day18_vars, main_vars, day4_vars, day11_vars, day15_vars, day5_vars, day21_vars>>

\* part1 or part2 is about to call find_num_paths
Day12Init ==
    /\ connections \in CaveMaps
    /\ part \in {"Part1", "Part2"}
    /\ to_visit = <<>>
    /\ paths = <<>>
    /\ num_paths = -1
    /\ day12_pc = "find_num_paths"
    /\ day18_idle
    /\ main_idle
    /\ day4_idle
    /\ day11_idle
    /\ day15_idle
    /\ day5_idle
    /\ day21_idle

\* find_num_paths up to its while loop
FindNumPathsStart ==
    /\ day12_pc = "find_num_paths"
    /\ IF has_bucket(adjacencies_to_map(connections), START_CAVE_NAME)
       THEN /\ to_visit' = first_hops(adjacencies_to_map(connections)[START_CAVE_NAME], 1)
            /\ day12_pc' = "while"
       ELSE /\ to_visit' = to_visit
            /\ day12_pc' = "panic: Input did not contain start cave"
    /\ UNCHANGED <<connections, part, paths, num_paths, outside_day12>>

\* one turn of the while loop: the last entry of to_visit is popped
VisitCave ==
    /\ day12_pc = "while"
    /\ to_visit # <<>>
    /\ \E top \in {to_visit[Len(to_visit)]} :
         IF top[1] = END_CAVE_NAME
         THEN /\ paths' = Append(paths, top[2])
              /\ to_visit' = SubSeq(to_visit, 1, Len(to_visit) - 1)
         ELSE /\ paths' = paths
              /\ to_visit' = SubSeq(to_visit, 1, Len(to_visit) - 1)
                                \o next_hops(part, adjacencies_to_map(connections)[top[1]],
                                             top[2], 1)
    /\ UNCHANGED <<connections, part, num_paths, day12_pc, outside_day12>>

\* to_visit is empty: paths.len() is returned
FindNumPathsReturn ==
    /\ day12_pc = "while"
    /\ to_visit = <<>>
    /\ num_paths' = Len(paths)
    /\ day12_pc' = "returned"
    /\ UNCHANGED <<connections, part, to_visit, paths, outside_day12>>

Day12Next ==
    \/ FindNumPathsStart
    \/ VisitCave
    \/ FindNumPathsReturn

Day12Spec == Day12Init /\ [][Day12Next]_vars

\* ---- what a path through the caves is ----

\* the caves of the map
Caves == UNION {{connections[k][1], connections[k][2]} : k \in 1..Len(connections)}

\* some line of the map connects the two caves
Connected(x, y) ==
    \E k \in 1..Len(connections) : connections[k] = <<x, y>> \/ connections[k] = <<y, x>>

IsSmall(name) == \A i \in 1..Len(name) : name[i] \notin AsciiUppercase

Occurrences(path, name) == Cardinality({i \in 1..Len(path) : path[i] = name})

\* the rules of the claim for a path or the beginning of one: start once,
\* end at most once, a small cave at most once; under Part2 one single small
\* cave other than start and end may occur twice
ObeysRules(which, path) ==
    /\ Occurrences(path, START_CAVE_NAME) = 1
    /\ Occurrences(path, END_CAVE_NAME) <= 1
    /\ \A name \in {c \in Caves : IsSmall(c)} \ {START_CAVE_NAME, END_CAVE_NAME} :
          Occurrences(path, name) <= IF which = "Part1" THEN 1 ELSE 2
    /\ Cardinality({c \in Caves : IsSmall(c) /\ Occurrences(path, c) >= 2}) <= 1

\* the paths to end that begin with path and obey the rules
RECURSIVE PathsFrom(_, _)
PathsFrom(which, path) ==
    IF path[Len(path)] = END_CAVE_NAME THEN {path}
    ELSE UNION {PathsFrom(which, Append(path, c)) :
                   c \in {n \in Caves : /\ Connected(path[Len(path)], n)
                                        /\ ObeysRules(which, Append(path, n))}}

\* the distinct paths from start to end that obey the rules
ValidPaths == PathsFrom(part, <<START_CAVE_NAME>>)

\* find_num_paths has returned the number of the valid paths, and paths
\* holds each of them once
CountsValidPaths ==
    day12_pc = "returned" =>
        /\ num_paths = Cardinality(ValidPaths)
        /\ {paths[i] : i \in 1..Len(paths)} = ValidPaths

\* no hop that generate_next_hops lets through makes a path break the rules
\* that obeyed them before
HopsObeyRules ==
    \A k \in 1..Len(to_visit) :
        (/\ Len(to_visit[k][2]) > 2
         /\ ObeysRules(part, SubSeq(to_visit[k][2], 1, Len(to_visit[k][2]) - 1)))
            => ObeysRules(part, to_visit[k][2])

\* no line connects a cave to itself, and no two lines connect the same two
\* caves
SimpleMap ==
    /\ \A k \in 1..Len(connections) : connections[k][1] # connections[k][2]
    /\ \A j, k \in 1..Len(connections) :
          j # k => {connections[j][1], connections[j][2]}
                       # {connections[k][1], connections[k][2]}

\* C18 as stated: find_num_paths counts exactly the distinct paths from
\* start to end in which start and end occur once, big caves any number of
\* times and small caves at most once (Part1), or at most once but for one
\* single small cave that occurs twice (Part2); generate_next_hops never
\* extends a path so that it breaks these rules
C18_CountsDistinctPaths == CountsValidPaths /\ HopsObeyRules

\* C18, amended: the same for a map in which no line connects a cave to
\* itself and no two lines connect the same two caves
C18_CountsPathsOfSimpleMap == (SimpleMap => CountsValidPaths) /\ HopsObeyRules

\* find_num_paths of Part2 has returned for a simple map, and one of the
\* paths counted goes through a small cave twice and a big cave twice
C18_Witness ==
    /\ day12_pc = "returned"
    /\ SimpleMap
    /\ part = "Part2"
    /\ num_paths >= 3
    /\ \E i \in 1..Len(paths) :
        /\ \E c \in Caves : IsSmall(c) /\ Occurrences(paths[i], c) = 2
        /\ \E c \in Caves : ~IsSmall(c) /\ Occurrences(paths[i], c) = 2

\* ------------------------------------------------------------------------
\* day5: hydrothermal venture
\* ------------------------------------------------------------------------

\* a Coordinate is <<x, y>>

order_pair(a, b) == IF a > b THEN <<b, a>> ELSE <<a, b>>

\* rise and run of points_follow_strategy
rise(a, b) == order_pair(a[2], b[2])[2] - order_pair(a[2], b[2])[1]

run(a, b) == order_pair(a[1], b[1])[2] - order_pair(a[1], b[1])[1]

\* Strategy::points_follow_strategy
points_follow_strategy(which, a, b) ==
    IF which = "OrthogonalOnly"
    THEN run(a, b) = 0 \/ rise(a, b) = 0
    ELSE run(a, b) = 0 \/ rise(a, b) = 0 \/ run(a, b) = rise(a, b)

\* a mutant of add_to_component_directionally: n is always added
add_to_component(start, end, n) == IF start = end THEN start ELSE start + n

add_to_component_directionally(start, end, n) ==
    IF start = end THEN start
    ELSE IF start > end THEN start - n
    ELSE start + n

\* travel_distance of iter_between
travel_distance(a, b) == IF run(a, b) >= rise(a, b) THEN run(a, b) ELSE rise(a, b)

\* Coordinate::iter_between: Err(InvalidDirection), or Ok with what the
\* iterator yields, in order
iter_between(self, other, which) ==
    IF ~points_follow_strategy(which, self, other)
    THEN [ok |-> FALSE, error |-> "InvalidDirection", coords |-> <<>>]
    ELSE [ok |-> TRUE, error |-> "",
          coords |-> [k \in 1..(travel_distance(self, other) + 1) |->
                        <<add_to_component_directionally(self[1], other[1], k - 1),
                          add_to_component_directionally(self[2], other[2], k - 1)>>]]

\* the for loop over the coordinates of one pair
RECURSIVE count_coords(_, _, _)
count_coords(coords, k, map) ==
    IF k > Len(coords) THEN map
    ELSE count_coords(coords, k + 1,
             insert(map, coords[k],
                    (IF coords[k] \in DOMAIN map THEN map[coords[k]] ELSE 0) + 1))

\* ---- the vents counted ----

MaxCoordinate == 2
MaxPairs == 2

Coordinates == (0..MaxCoordinate) \X (0..MaxCoordinate)

CoordinatePairs == UNION {[1..n -> Coordinates \X Coordinates] : n \in 1..MaxPairs}

\* what day5 leaves alone
outside_day5 == <<day18_vars, main_vars, day4_vars, day11_vars, day15_vars, day12_vars, day21_vars>>

\* part1 or part2 calls build_intersection_count_map
Day5Init ==
    /\ coordinate_pairs \in CoordinatePairs
    /\ strategy \in {"OrthogonalOnly", "OrthogonalAnd45Degrees"}
    /\ counts = no_entries
    /\ next_pair = 1
    /\ day5_pc = "for"
    /\ day18_idle
    /\ main_idle
    /\ day4_idle
    /\ day11_idle
    /\ day15_idle
    /\ day12_idle
    /\ day21_idle

\* one turn of the for loop for a pair that is not in line with the
\* strategy: continue
SkipPair ==
    /\ day5_pc = "for"
    /\ next_pair <= Len(coordinate_pairs)
    /\ ~iter_between(coordinate_pairs[next_pair][1], coordinate_pairs[next_pair][2],
                     strategy).ok
    /\ next_pair' = next_pair + 1
    /\ UNCHANGED <<coordinate_pairs, strategy, counts, day5_pc, outside_day5>>

\* one turn of the for loop for a pair that is
CountPair ==
    /\ day5_pc = "for"
    /\ next_pair <= Len(coordinate_pairs)
    /\ iter_between(coordinate_pairs[next_pair][1], coordinate_pairs[next_pair][2],
                    strategy).ok
    /\ counts' = count_coords(iter_between(coordinate_pairs[next_pair][1],
                                           coordinate_pairs[next_pair][2],
                                           strategy).coords, 1, counts)
    /\ next_pair' = next_pair + 1
    /\ UNCHANGED <<coordinate_pairs, strategy, day5_pc, outside_day5>>

\* the for loop is over: Ok(counts)
ReturnCounts ==
    /\ day5_pc = "for"
    /\ next_pair > Len(coordinate_pairs)
    /\ day5_pc' = "Ok"
    /\ UNCHANGED <<coordinate_pairs, strategy, counts, next_pair, outside_day5>>

Day5Next ==
    \/ SkipPair
    \/ CountPair
    \/ ReturnCounts

Day5Spec == Day5Init /\ [][Day5Next]_vars

\* ---- what a segment covers ----

Distance(m, n) == IF m >= n THEN m - n ELSE n - m

\* horizontal, vertical, or (second strategy) at 45 degrees
InLine(which, a, b) ==
    \/ a[1] = b[1]
    \/ a[2] = b[2]
    \/ which = "OrthogonalAnd45Degrees" /\ Distance(a[1], b[1]) = Distance(a[2], b[2])

MaxNorm(a, b) ==
    IF Distance(a[1], b[1]) >= Distance(a[2], b[2])
    THEN Distance(a[1], b[1]) ELSE Distance(a[2], b[2])

Between(m, lo, hi) == (lo <= m /\ m <= hi) \/ (hi <= m /\ m <= lo)

\* the lattice points of the segment from a to b, both ends included
LatticePoints(a, b) ==
    {q \in Coordinates :
        /\ Between(q[1], a[1], b[1])
        /\ Between(q[2], a[2], b[2])
        /\ (q[1] - a[1]) * (b[2] - a[2]) = (q[2] - a[2]) * (b[1] - a[1])}

\* iter_between for one pair: an error exactly for a pair out of line,
\* else every lattice point of the segment once, from the first end to the
\* second
IterBetweenSound(a, b) ==
    /\ iter_between(a, b, strategy).ok <=> InLine(strategy, a, b)
    /\ ~iter_between(a, b, strategy).ok => iter_between(a, b, strategy).error = "InvalidDirection"
    /\ iter_between(a, b, strategy).ok =>
        /\ Len(iter_between(a, b, strategy).coords) = MaxNorm(a, b) + 1
        /\ {iter_between(a, b, strategy).coords[k] :
               k \in 1..Len(iter_between(a, b, strategy).coords)} = LatticePoints(a, b)
        /\ Cardinality(LatticePoints(a, b)) = MaxNorm(a, b) + 1
        /\ iter_between(a, b, strategy).coords[1] = a
        /\ iter_between(a, b, strategy).coords[MaxNorm(a, b) + 1] = b

\* the pairs before next_pair that are in line and cover q
Covering(q) ==
    {k \in 1..(next_pair - 1) :
        /\ InLine(strategy, coordinate_pairs[k][1], coordinate_pairs[k][2])
        /\ q \in LatticePoints(coordinate_pairs[k][1], coordinate_pairs[k][2])}

\* C19: iter_between returns InvalidDirection exactly for a segment that is
\* not horizontal or vertical (OrthogonalOnly), or not horizontal, vertical
\* or at 45 degrees (OrthogonalAnd45Degrees); otherwise it yields each
\* lattice point of the segment once, max-norm distance + 1 points in all.
\* build_intersection_count_map never fails, leaves the counts alone for a
\* segment out of line, and counts each point once for every segment in
\* line that covers it
C19_VentCounts ==
    /\ \A k \in 1..Len(coordinate_pairs) :
          IterBetweenSound(coordinate_pairs[k][1], coordinate_pairs[k][2])
    /\ day5_pc \in {"for", "Ok"}
    /\ DOMAIN counts = {q \in Coordinates : Covering(q) # {}}
    /\ \A q \in DOMAIN counts : counts[q] = Cardinality(Covering(q))

\* build_intersection_count_map has returned after it skipped a segment
\* out of line and counted a diagonal one that runs from right to left
C19_Witness ==
    /\ day5_pc = "Ok"
    /\ \E k \in 1..Len(coordinate_pairs) :
          ~InLine(strategy, coordinate_pairs[k][1], coordinate_pairs[k][2])
    /\ \E k \in 1..Len(coordinate_pairs) :
          /\ coordinate_pairs[k][1][1] > coordinate_pairs[k][2][1] + 1
          /\ coordinate_pairs[k][1][2] < coordinate_pairs[k][2][2]
          /\ InLine(strategy, coordinate_pairs[k][1], coordinate_pairs[k][2])
          /\ counts[<<1, 1>>] = 1

\* ------------------------------------------------------------------------
\* day18: further properties of reduce, explode, split and magnitude
\* ------------------------------------------------------------------------

\* the kind of the only child of node idx on a side, "none" when there is
\* not exactly one
ChildKind(t, idx, direction) ==
    IF Cardinality(targets(t, idx, direction)) # 1 THEN "none"
    ELSE node_weight(t.graph, CHOOSE c \in targets(t, idx, direction) : TRUE).t

\* C21: every node reduce explodes is a PairRoot whose two children are both
\* leaves, and every node it splits is a Leaf, so that none of the panics of
\* explode_in_relative_direction and split_node and none of the unwraps on a
\* missing child is reached from reduce, also for inputs nested deeper than
\* depth 4
C21_ExplodeTargetsLeafPair ==
    /\ pc \notin {"panic: explode", "panic: cannot explode non-leaf"}
    /\ (CandidatesLookedUp /\ explode_candidate # None) =>
          /\ node_weight(tree.graph, explode_candidate).t = "PairRoot"
          /\ ChildKind(tree, explode_candidate, "Left") = "Leaf"
          /\ ChildKind(tree, explode_candidate, "Right") = "Leaf"
          /\ ~explode_panics(tree, explode_candidate)
    /\ (CandidatesLookedUp /\ explode_candidate = None /\ split_candidate # None) =>
          node_weight(tree.graph, split_candidate).t = "Leaf"

\* reduce is about to explode a pair that lies deeper than depth 4 while
\* another pair at depth 4 or more holds a pair itself
C21_Witness ==
    /\ CandidatesLookedUp
    /\ explode_candidate # None
    /\ Len(PathTo(tree, explode_candidate)) > 4
    /\ \E p \in DeepPairPaths(ValueOf(tree), <<>>) :
          SubValue(ValueOf(tree), p).left.kind = "Pair"

\* the node slots of a tree that hold a node
LiveNodes(t) == {i \in 1..Len(t.graph.nodes) : t.graph.nodes[i].t # "Vacant"}

\* how many edges of a tree leave node a with the given edge type
EdgeCount(t, a, weight) ==
    Cardinality({k \in 1..Len(t.graph.edges) :
                    t.graph.edges[k].src = a /\ t.graph.edges[k].w = weight})

\* some edge of the tree leads from a to b with the given edge type
HasEdge(t, a, b, weight) ==
    \E k \in 1..Len(t.graph.edges) :
        t.graph.edges[k] = [src |-> a, dst |-> b, w |-> weight]

\* the graph of t is a binary tree rooted at root_idx
WellFormedTree(t) ==
    /\ t.root_idx \in LiveNodes(t)
    /\ \A k \in 1..Len(t.graph.edges) :
          /\ t.graph.edges[k].src \in LiveNodes(t)
          /\ t.graph.edges[k].dst \in LiveNodes(t)
    /\ \A i \in LiveNodes(t) :
          /\ EdgeCount(t, i, "Parent") = (IF i = t.root_idx THEN 0 ELSE 1)
          /\ t.graph.nodes[i].t = "PairRoot" =>
                /\ EdgeCount(t, i, Child("Left")) = 1
                /\ EdgeCount(t, i, Child("Right")) = 1
          /\ t.graph.nodes[i].t = "Leaf" =>
                /\ EdgeCount(t, i, Child("Left")) = 0
                /\ EdgeCount(t, i, Child("Right")) = 0
    /\ \A a, b \in LiveNodes(t) :
          (HasEdge(t, a, b, Child("Left")) \/ HasEdge(t, a, b, Child("Right")))
             <=> HasEdge(t, b, a, "Parent")

\* C22: once built, the tree is in every state (after build, after each
\* merge, after each explode and after each split) a well-formed binary tree:
\* only root_idx has no Parent edge, every other node has exactly one, every
\* PairRoot has exactly one Child(Left) and one Child(Right) edge, a Leaf has
\* no child edge, and a -> b is a Child edge iff b -> a is a Parent edge
C22_WellFormedTree == tree # empty_tree => WellFormedTree(tree)

\* a tree that was merged, has exploded and has then split, the split using
\* again the slots of the nodes the explode removed
C22_Witness ==
    /\ last_rewrite = "split"
    /\ next_input > 2
    /\ before.graph.free # <<>>
    /\ WellFormedTree(before)

\* new is old with a new root planted above it, the old root on the side
\* opposite to side and the expansion of other on side
MergeEffect(old, new, other, side) ==
    /\ new.root_idx \notin LiveNodes(old)
    /\ node_weight(new.graph, new.root_idx) = PairRoot
    /\ targets(new, new.root_idx, Child(get_other(side))) = {old.root_idx}
    /\ Cardinality(targets(new, new.root_idx, Child(side))) = 1
    /\ \A c \in targets(new, new.root_idx, Child(side)) :
          /\ c \notin LiveNodes(old)
          /\ ValueAt(new, c) = other
    /\ ValueAt(new, old.root_idx) = ValueOf(old)
    /\ \A i \in LiveNodes(old) :
          /\ i \in LiveNodes(new)
          /\ node_weight(new.graph, i) = node_weight(old.graph, i)
          /\ targets(new, i, Child("Left")) = targets(old, i, Child("Left"))
          /\ targets(new, i, Child("Right")) = targets(old, i, Child("Right"))
          /\ PathTo(new, i) = <<get_other(side)>> \o PathTo(old, i)

\* part1 or part2 is about to merge the next expression into the tree
MergePending ==
    \/ pc = "part1_loop" /\ next_input <= Len(input_pairs)
    \/ pc = "part2_merge"

\* the expression the pending merge adds
MergeOperand ==
    IF pc = "part1_loop" THEN input_pairs[next_input]
    ELSE input_pairs[permutations(Len(input_pairs))[perm][2]]

\* a step of part1 or part2 that merges
MergeStep == MergePending /\ pc' = "reduce"

\* C23: insert_root_sibling_input_pair(other, side) creates one new PairRoot
\* that becomes root_idx, with the former root as its child on the side
\* opposite to side and the expansion of other as its child on side; the
\* former root's subtree keeps its shape and leaf values and each of its
\* nodes lies exactly one level deeper.  Stated of the function for both
\* sides wherever a merge is pending, and of the merge part1 and part2 make.
C23_RootSiblingFrame ==
    /\ [](MergePending =>
            \A side \in {"Left", "Right"} :
                MergeEffect(tree,
                            insert_root_sibling_input_pair(tree, MergeOperand, side),
                            MergeOperand, side))
    /\ [][MergeStep => MergeEffect(tree, tree', MergeOperand, "Right")]_vars

\* the root's slot held another node before the last rewrite of reduce
last_slot_vacated_by_explode ==
    /\ tree.root_idx \in 1..Len(before.graph.nodes)
    /\ before.graph.nodes[tree.root_idx].t = "Leaf"

\* a merge has just been made into a tree that reduce had rewritten, the new
\* root taking the slot of a leaf the last explode had removed
C23_Witness ==
    /\ pc = "reduce"
    /\ last_rewrite = "none"
    /\ performed_action = "None"
    /\ HasRewritten
    /\ last_slot_vacated_by_explode
    /\ ValueOf(tree).left.kind = "Pair"

\* the sum of a sequence of leaf values
RECURSIVE SumOf(_)
SumOf(seq) == IF seq = <<>> THEN 0 ELSE Head(seq) + SumOf(Tail(seq))

LeafSum(v) == SumOf(LeafSeq(v))

\* what the last explode dropped: the left value of the pair when no leaf
\* lies left of it, the right value when none lies right of it
DroppedByExplode ==
    (IF BeforeAt = 1 THEN BeforeLeaves[BeforeAt] ELSE 0)
    + (IF BeforeAt + 1 = Len(BeforeLeaves) THEN BeforeLeaves[BeforeAt + 1] ELSE 0)

\* C24, as claimed: an explode leaves the sum of all leaf values of the tree
\* unchanged
C24_ExplodeKeepsLeafSum ==
    last_rewrite = "explode" => LeafSum(ValueOf(tree)) = LeafSum(BeforeValue)

\* C24, amended: an explode leaves the sum of all leaf values unchanged when
\* a leaf lies on both sides of the exploded pair; the value of a side on
\* which no leaf lies is dropped and the sum is smaller by it
C24_ExplodeLeafSum ==
    last_rewrite = "explode" =>
        LeafSum(ValueOf(tree)) = LeafSum(BeforeValue) - DroppedByExplode

\* an explode of a pair of two values above 0 with a leaf on both sides
C24_Witness ==
    /\ last_rewrite = "explode"
    /\ BeforeAt > 1
    /\ BeforeAt + 1 < Len(BeforeLeaves)
    /\ BeforeLeaves[BeforeAt] > 0
    /\ BeforeLeaves[BeforeAt + 1] > 0
    /\ LeafSum(ValueOf(tree)) = LeafSum(BeforeValue)

\* an explode that dropped a value above 0
C24_WitnessDropped == last_rewrite = "explode" /\ DroppedByExplode > 0

\* the factor magnitude applies to a leaf at the end of a path: 3 for every
\* step to the left, 2 for every step to the right
RECURSIVE WeightOf(_)
WeightOf(path) ==
    IF path = <<>> THEN 1
    ELSE (IF Head(path) = "Left" THEN 3 ELSE 2) * WeightOf(Tail(path))

\* the path to the k-th leaf, left to right, of a value
RECURSIVE LeafPath(_, _)
LeafPath(v, k) ==
    IF v.kind = "Leaf" THEN <<>>
    ELSE IF k <= Len(LeafSeq(v.left)) THEN <<"Left">> \o LeafPath(v.left, k)
    ELSE <<"Right">> \o LeafPath(v.right, k - Len(LeafSeq(v.left)))

\* by how much the last split changed the magnitude: Leaf(n) weighs n, the
\* pair it became weighs 3 * floor(n / 2) + 2 * ceil(n / 2)
SplitGain ==
    WeightOf(BeforePath)
    * (3 * (SplitValue.n \div 2) + 2 * (SplitValue.n - SplitValue.n \div 2)
       - SplitValue.n)

\* by how much the last explode changed the magnitude: the pair [l, r] that
\* weighed 3 * l + 2 * r weighs 0, the leaf before it weighs l more and the
\* leaf after it r more, each by its own factor
ExplodeGain ==
    (IF BeforeAt > 1
     THEN WeightOf(LeafPath(BeforeValue, BeforeAt - 1)) * BeforeLeaves[BeforeAt]
     ELSE 0)
    + (IF BeforeAt + 1 < Len(BeforeLeaves)
       THEN WeightOf(LeafPath(BeforeValue, BeforeAt + 2)) * BeforeLeaves[BeforeAt + 1]
       ELSE 0)
    - WeightOf(BeforePath) * (3 * BeforeLeaves[BeforeAt] + 2 * BeforeLeaves[BeforeAt + 1])

\* C25, as claimed: the magnitude of the tree after any explode or split step
\* of reduce equals its magnitude before that step
C25_MagnitudeInvariant ==
    last_rewrite \in {"explode", "split"} => magnitude(tree) = magnitude(before)

\* C25, amended: a split of Leaf(n) raises the magnitude by the leaf's factor
\* times 3 * floor(n / 2) + 2 * ceil(n / 2) - n, which is above 0; an explode
\* of [l, r] changes it by l times the factor of the leaf before the pair
\* plus r times the factor of the leaf after it minus the pair's factor times
\* 3 * l + 2 * r
C25_MagnitudeChange ==
    /\ last_rewrite = "split" =>
          /\ magnitude(tree) = magnitude(before) + SplitGain
          /\ SplitGain > 0
    /\ last_rewrite = "explode" =>
          magnitude(tree) = magnitude(before) + ExplodeGain

\* an explode between two leaves has changed the magnitude
C25_Witness ==
    /\ last_rewrite = "explode"
    /\ BeforeAt > 1
    /\ BeforeAt + 1 < Len(BeforeLeaves)
    /\ magnitude(tree) # magnitude(before)

\* a split of an odd value has raised the magnitude
C25_WitnessSplit ==
    /\ last_rewrite = "split"
    /\ SplitValue.n % 2 = 1
    /\ magnitude(tree) > magnitude(before)

\* a value is in reduced form: no pair at depth 4 or deeper, no leaf of 10 or
\* more
IsReducedValue(v) ==
    /\ \A d \in PairDepths(v, 0) : d < 4
    /\ \A i \in 1..Len(LeafSeq(v)) : LeafSeq(v)[i] < 10

\* the depths (root = 0) of the leaves of a value found at depth
RECURSIVE LeafDepths(_, _)
LeafDepths(v, depth) ==
    IF v.kind = "Leaf" THEN {depth}
    ELSE LeafDepths(v.left, depth + 1) \cup LeafDepths(v.right, depth + 1)

\* the two expressions of the permutation part2 is at
Part2Pair(k) == input_pairs[permutations(Len(input_pairs))[perm][k]]

\* reduce is at work on the merge of two trees in reduced form: in part1 the
\* tree reduce returned and a reduced expression of the input, in part2 two
\* reduced expressions of the input
ReducingMergeOfReduced ==
    /\ pc \in {"reduce", "reduce_act"}
    /\ IF caller = "part1"
       THEN next_input > 2 /\ IsReducedValue(input_pairs[next_input - 1])
       ELSE IsReducedValue(Part2Pair(1)) /\ IsReducedValue(Part2Pair(2))

\* C26: while reduce works on the merge of two trees in reduced form, every
\* PairRoot lies at depth <= 4 and every Leaf at depth <= 5 (root at depth 0)
\* in every state between rewrites; a split is made only of a tree with no
\* pair at depth 4, a pair at depth 4 being exploded first, and so never
\* makes a pair deeper than depth 4
C26_DepthBounded ==
    ReducingMergeOfReduced =>
        /\ \A d \in PairDepths(ValueOf(tree), 0) : d <= 4
        /\ \A d \in LeafDepths(ValueOf(tree), 0) : d <= 5
        /\ last_rewrite = "split" =>
              /\ \A d \in PairDepths(BeforeValue, 0) : d < 4
              /\ Len(BeforePath) <= 4
        /\ (CandidatesLookedUp /\ 4 \in PairDepths(ValueOf(tree), 0)) =>
              explode_candidate # None

\* reduce, at work on the merge of two reduced trees, has split a leaf at
\* depth 4 after an earlier explode: the new pair lies at depth 4 and its
\* leaves at depth 5
C26_Witness ==
    /\ ReducingMergeOfReduced
    /\ last_rewrite = "split"
    /\ Len(BeforePath) = 4
    /\ before.graph.free # <<>>
    /\ 5 \in LeafDepths(ValueOf(tree), 0)

\* a step of part1 or of part2 that calls magnitude() on the reduced tree
MagnitudeStep ==
    \/ pc = "part1_loop" /\ pc' = "part2"
    \/ pc = "part2_magnitude" /\ pc' = "part2"

\* what the magnitude() of the step returned
Returned == IF pc = "part1_loop" THEN part1_result' ELSE magnitudes'[Len(magnitudes')]

ReducingReduced ==
    /\ pc \in {"reduce", "reduce_act"}
    /\ IsReducedValue(ValueOf(tree))

\* C29: reduce is idempotent: on a tree in reduced form it finds no candidate,
\* makes no explode and no split and leaves nodes, edges and root_idx as they
\* were, at every step and as a whole; the tree reduce returns is therefore
\* what a second reduce of it returns, and part1's first reduce of a reduced
\* first expression changes nothing
C29_ReduceIdempotent ==
    /\ [](ReducingReduced => reduce(tree) = tree)
    /\ [](ReduceReturned => reduce(tree) = tree)
    /\ []((CandidatesLookedUp /\ IsReducedValue(ValueOf(tree))) =>
              explode_candidate = None /\ split_candidate = None)
    /\ [][ReducingReduced =>
              /\ tree' = tree
              /\ last_rewrite' = "none"
              /\ pc' \in {"reduce", "reduce_act", "part1_loop", "part2_magnitude"}]_vars

\* part1's first reduce has returned from a first expression in reduced form
\* that holds pairs at depth 3 and a 9, without a rewrite
C29_Witness ==
    /\ pc = "part1_loop"
    /\ next_input = 2
    /\ ~HasRewritten
    /\ IsReducedValue(input_pairs[1])
    /\ 3 \in PairDepths(input_pairs[1], 0)
    /\ \E i \in 1..Len(LeafSeq(input_pairs[1])) : LeafSeq(input_pairs[1])[i] = 9
    /\ ValueOf(tree) = input_pairs[1]

\* reduce has returned from a merge that needed no rewrite
C29_WitnessMerge ==
    /\ pc = "part1_loop"
    /\ next_input > 2
    /\ ~HasRewritten

\* ------------------------------------------------------------------------
\* day15: part2, the cave expanded five times in both directions
\* ------------------------------------------------------------------------

\* slice.iter().cycle().take(slice.len() * n)
iterate_slice_n_times(slice, n) ==
    [k \in 1..(Len(slice) * n) |-> slice[((k - 1) % Len(slice)) + 1]]

\* `(new_risk_candidate - 1) % 9 + 1` of original_risk + risk_offset
wrapped_risk(original_risk, risk_offset) ==
    (((original_risk + risk_offset) - 1) % 9) + 1

\* the inner loop of generate_expanded_board for the row enumerated as i:
\* row_tile is i / input.len() and col_tile is j / input.len()
expanded_row(input, i, cycled) ==
    [k \in 1..Len(cycled) |->
        wrapped_risk(cycled[k], (i \div Len(input)) + ((k - 1) \div Len(input)))]

\* the outer loop, the rows cycled
expanded_rows(input, cycled_rows) ==
    [k \in 1..Len(cycled_rows) |->
        expanded_row(input, k - 1, iterate_slice_n_times(cycled_rows[k], 5))]

generate_expanded_board(input) ==
    expanded_rows(input, iterate_slice_n_times(input, 5))

\* ---- the caves expanded ----

MaxTileRows == 2
MaxTileCols == 3

\* every cave up to MaxTileRows x MaxTileCols with risks 1 and 9
TileCaves ==
    UNION {[1..r -> [1..c -> FewRisks]] : r \in 1..MaxTileRows, c \in 1..MaxTileCols}

\* part2 before its first statement
Day15ExpandInit ==
    /\ cave \in TileCaves
    /\ risks = no_entries
    /\ node_parents = no_entries
    /\ visit_queue = {}
    /\ visiting_node = None
    /\ part1_cost = -1
    /\ day15_pc = "part2"
    /\ day18_idle
    /\ main_idle
    /\ day4_idle
    /\ day11_idle
    /\ day12_idle
    /\ day5_idle
    /\ day21_idle

\* part2: `let expanded_input = generate_expanded_board(input)`; the part1
\* that part2 then calls with it is the search of Day15Spec
Part2Expand ==
    /\ day15_pc = "part2"
    /\ cave' = generate_expanded_board(cave)
    /\ day15_pc' = "part2: expanded"
    /\ UNCHANGED <<risks, node_parents, visit_queue, visiting_node, part1_cost,
                   outside_day15>>

Day15ExpandNext == Part2Expand

Day15ExpandSpec == Day15ExpandInit /\ [][Day15ExpandNext]_vars

\* ---- what the expanded cave holds ----

\* the 5R x 5C board whose cell (i, j) is the cell (i mod R, j mod C) of the
\* input raised by floor(i / R) + floor(j / C), wrapping from 9 to 1
TiledBoard(input) ==
    [i \in 1..(5 * Len(input)) |->
        [j \in 1..(5 * Len(input[1])) |->
            ((input[((i - 1) % Len(input)) + 1][((j - 1) % Len(input[1])) + 1]
              + ((i - 1) \div Len(input)) + ((j - 1) \div Len(input[1])) - 1) % 9) + 1]]

\* part2 is about to expand its input, and has expanded it
AboutToExpand == day15_pc = "part2"

Expanded == day15_pc = "part2: expanded"

\* the first fifth of the rows and of the columns of a board: the input of
\* an expansion, which the tile offsets 0 and 0 leave as it is
TopLeftTile(board) ==
    [i \in 1..(Len(board) \div 5) |->
        [j \in 1..(Len(board[1]) \div 5) |-> board[i][j]]]

\* C28: generate_expanded_board returns, for every rectangular R x C input
\* with risks 1..=9, the 5R x 5C board whose cell (i, j) is
\* ((input[i mod R][j mod C] + floor(i / R) + floor(j / C) - 1) mod 9) + 1,
\* also when R differs from C
C28_ExpandedBoard ==
    /\ AboutToExpand => generate_expanded_board(cave) = TiledBoard(cave)
    /\ Expanded => cave = TiledBoard(TopLeftTile(cave))

\* the same of the inputs with as many rows as columns
C28_SquareExpandedBoard ==
    /\ (AboutToExpand /\ Len(cave) = Len(cave[1])) =>
          generate_expanded_board(cave) = TiledBoard(cave)
    /\ (Expanded /\ Len(cave) = Len(cave[1])) => cave = TiledBoard(TopLeftTile(cave))

\* the expansion has five times the rows and five times the columns of the
\* input and its risks are in 1..=9, whatever the shape of the input
C28_ExpandedSizeAndRange ==
    AboutToExpand =>
        /\ Len(generate_expanded_board(cave)) = 5 * Len(cave)
        /\ \A i \in 1..(5 * Len(cave)) :
              /\ Len(generate_expanded_board(cave)[i]) = 5 * Len(cave[1])
              /\ \A j \in 1..(5 * Len(cave[1])) :
                    generate_expanded_board(cave)[i][j] \in 1..9

\* ------------------------------------------------------------------------
\* day21: Dirac dice, part1
\* ------------------------------------------------------------------------

\* Player::get_other
get_other_player(player) == IF player = "Player1" THEN "Player2" ELSE "Player1"

\* PlayerState::new
new_player_state(starting_pos) == [score |-> 0, position |-> starting_pos]

\* a move that numbers the places from 0
move_forward_from_zero(state, n) ==
    Only({[score |-> state.score + position, position |-> position] :
          position \in {(state.position + n) % 10}})

\* PlayerState::move_forward: the state after it
move_forward(state, n) ==
    Only({[score |-> state.score + position, position |-> position] :
          position \in {((state.position + n - 1) % 10) + 1}})

\* GameState::get_player_state
get_player_state(state, player) ==
    IF player = "Player1" THEN state.player1_state ELSE state.player2_state

\* what get_player_state_mut gives access to, written with a new state
with_player_state(state, player, player_state) ==
    IF player = "Player1" THEN [state EXCEPT !.player1_state = player_state]
    ELSE [state EXCEPT !.player2_state = player_state]

get_winning_player(state) ==
    IF state.player1_state.score > state.player2_state.score THEN "Player1"
    ELSE "Player2"

get_losing_player(state) == get_other_player(get_winning_player(state))

\* DeterministicDie::new
new_die == [next_value |-> 1]

\* DeterministicDie::roll: the value rolled and the die after it
roll(d) == [val |-> d.next_value, die |-> [next_value |-> (d.next_value % 100) + 1]]

\* the score a game is played to
WINNING_SCORE == 1000

\* the places of the board
Places == 1..10

\* what day21 leaves alone
outside_day21 ==
    <<day18_vars, main_vars, day4_vars, day11_vars, day15_vars, day12_vars, day5_vars>>

\* part1 up to its while loop
Day21Init ==
    /\ die = new_die
    /\ num_rolls = 0
    /\ current_player = "Player1"
    /\ \E player1_start_pos \in Places, player2_start_pos \in Places :
          game_state = [player1_state |-> new_player_state(player1_start_pos),
                        player2_state |-> new_player_state(player2_start_pos)]
    /\ roll_value = 0
    /\ rolls_taken = 0
    /\ day21_result = -1
    /\ day21_pc = "while"
    /\ day18_idle
    /\ main_idle
    /\ day4_idle
    /\ day11_idle
    /\ day15_idle
    /\ day12_idle
    /\ day5_idle

\* the condition of the while loop
nobody_has_won(state) ==
    get_player_state(state, get_winning_player(state)).score < WINNING_SCORE

\* the while condition holds: a turn begins
TurnBegins ==
    /\ day21_pc = "while"
    /\ nobody_has_won(game_state)
    /\ roll_value' = 0
    /\ rolls_taken' = 0
    /\ day21_pc' = "rolling"
    /\ UNCHANGED <<die, num_rolls, current_player, game_state, day21_result,
                   outside_day21>>

\* one of the three die.roll() of `take(3).map(|_| die.roll()).sum()`
DieRoll ==
    /\ day21_pc = "rolling"
    /\ rolls_taken < 3
    /\ \E rolled \in {roll(die)} :
          /\ die' = rolled.die
          /\ roll_value' = roll_value + rolled.val
    /\ rolls_taken' = rolls_taken + 1
    /\ UNCHANGED <<num_rolls, current_player, game_state, day21_result, day21_pc,
                   outside_day21>>

\* the rest of the turn: num_rolls += 3, move_forward, the other player is
\* next
TurnEnds ==
    /\ day21_pc = "rolling"
    /\ rolls_taken = 3
    /\ num_rolls' = num_rolls + 3
    /\ game_state' = with_player_state(game_state, current_player,
                         move_forward(get_player_state(game_state, current_player),
                                      roll_value))
    /\ current_player' = get_other_player(current_player)
    /\ day21_pc' = "while"
    /\ UNCHANGED <<die, roll_value, rolls_taken, day21_result, outside_day21>>

\* the while condition fails: part1 returns the score of the losing player
\* times num_rolls
Day21Part1Return ==
    /\ day21_pc = "while"
    /\ ~nobody_has_won(game_state)
    /\ day21_result' = get_player_state(game_state, get_losing_player(game_state)).score
                       * num_rolls
    /\ day21_pc' = "returned"
    /\ UNCHANGED <<die, num_rolls, current_player, game_state, roll_value, rolls_taken,
                   outside_day21>>

Day21Next ==
    \/ TurnBegins
    \/ DieRoll
    \/ TurnEnds
    \/ Day21Part1Return

Day21Spec == Day21Init /\ [][Day21Next]_vars

\* ---- what a game of part1 is ----

\* the rolls made so far, those of the turn under way included
RollsMade == num_rolls + (IF day21_pc = "rolling" THEN rolls_taken ELSE 0)

\* the value of the k-th roll of a game, counted from 0: 1, 2, ..., 100, 1, ...
NthRoll(k) == (k % 100) + 1

\* the player whose turn the k-th turn of a game, counted from 0, is
NthMover(k) == IF k % 2 = 0 THEN "Player1" ELSE "Player2"

\* a game of part1 is being played or is over
Day21Playing == day21_pc \in {"while", "rolling", "returned"}

\* a step that ends a turn
TurnEndStep == day21_pc = "rolling" /\ day21_pc' = "while"

\* C30: in every reachable state of the game loop of part1, for start
\* positions in 1..=10: both positions are in 1..=10; the die's next value is
\* in 1..=100 and goes 1, 2, ..., 100, 1, ...; the players move strictly in
\* turn, Player1 first; each turn takes exactly three rolls and adds the new
\* position to the score of the player who moved and to nothing else; the
\* loop stops at the first turn after which a score is >= 1000, so that the
\* loser's score is < 1000; the result is the loser's score times the number
\* of rolls made
C30_Part1Game ==
    /\ [](Day21Playing =>
            /\ game_state.player1_state.position \in 1..10
            /\ game_state.player2_state.position \in 1..10
            /\ die.next_value \in 1..100
            /\ die.next_value = NthRoll(RollsMade)
            /\ num_rolls % 3 = 0
            /\ current_player = NthMover(num_rolls \div 3)
            /\ day21_pc = "rolling" =>
                  /\ game_state.player1_state.score < 1000
                  /\ game_state.player2_state.score < 1000
            /\ day21_pc = "returned" =>
                  /\ get_player_state(game_state, get_winning_player(game_state)).score
                        >= 1000
                  /\ get_player_state(game_state, get_losing_player(game_state)).score
                        < 1000
                  /\ day21_result =
                        get_player_state(game_state, get_losing_player(game_state)).score
                        * RollsMade)
    /\ [][TurnEndStep =>
            /\ rolls_taken = 3
            /\ roll_value = NthRoll(num_rolls) + NthRoll(num_rolls + 1)
                            + NthRoll(num_rolls + 2)
            /\ num_rolls' = num_rolls + 3
            /\ current_player' # current_player
            /\ get_player_state(game_state', current_player).score =
                  get_player_state(game_state, current_player).score
                  + get_player_state(game_state', current_player).position
            /\ get_player_state(game_state', current_player') =
                  get_player_state(game_state, current_player')]_vars

\* the game from the places 4 and 8 is over: Player2 has lost with 745
\* points after 993 rolls, the die having gone round nine times
C30_Witness ==
    /\ day21_pc = "returned"
    /\ num_rolls = 993
    /\ get_losing_player(game_state) = "Player2"
    /\ game_state.player2_state.score = 745
    /\ day21_result = 739785

====
